---- MODULE Spec2Model ----
(***************************************************************************)
(* Bidirectional reconciliation engine between markdown task documents and *)
(* the remote task service: conflict resolver, per-document processing     *)
(* (scan, level-by-level creation, reconcile, resolve, push, write-back),  *)
(* the cycle around it (pull, selection, sequential loop, save) and the    *)
(* remote client's pull with its retry loop.                               *)
(*                                                                         *)
(* A task line is modelled by its tokens: indentation, checkbox, text,     *)
(* priority marker, due-date marker, duration marker and id comment.  User *)
(* labels and the time of day of a due date are not modelled: every task   *)
(* carries the sync tag only, and due dates have no time.  All lines of a  *)
(* document are task lines; outside the cycle specification all documents  *)
(* are sync-enabled.                                                       *)
(***************************************************************************)
EXTENDS Integers, Sequences, FiniteSets, TLC

(***************************************************************************)
(* Bounds of the model.                                                    *)
(***************************************************************************)
MaxPending == 3        \* longest pending_changes list drawn for the resolver
MaxTsStep == 3         \* resolver timestamps are 0, 500, .., 500*MaxTsStep ms
MaxWindow == 1         \* conflictResolutionWindow ranges over -MaxWindow..MaxWindow s

MaxLines == 3          \* longest document, in task lines
MaxIds == 5            \* remote ids the service hands out in one behaviour

TsSet == {500 * k : k \in 0..MaxTsStep}
WindowSet == (0 - MaxWindow)..MaxWindow
Sources == {"api", "local"}
ChangeTags == {"c1", "c2"}

Abs(x) == IF x < 0 THEN 0 - x ELSE x

(***************************************************************************)
(* Conflict resolver (conflictResolver.ts).                                *)
(***************************************************************************)
NoResolution == [source |-> "none"]

\* Array.prototype.filter on pending_changes by source.
FilterSource(pending, src) == SelectSeq(pending, LAMBDA c : c.source = src)

\* changes.reduce((a, b) => a.timestamp > b.timestamp ? a : b)
RECURSIVE reduceOldestFrom(_, _, _)
reduceOldestFrom(changes, acc, i) ==
    IF i > Len(changes) THEN acc
    ELSE reduceOldestFrom(changes,
                          IF acc.timestamp < changes[i].timestamp THEN acc ELSE changes[i],
                          i + 1)

RECURSIVE reduceLatestFrom(_, _, _)
reduceLatestFrom(changes, acc, i) ==
    IF i > Len(changes) THEN acc
    ELSE reduceLatestFrom(changes,
                          IF acc.timestamp > changes[i].timestamp THEN acc ELSE changes[i],
                          i + 1)

\* Mutant of reduceLatest: the change queued last is kept, whatever its timestamp.
reduceLatestLast(changes) == changes[Len(changes)]

\* Mutant of reduceLatest: the comparison is inverted, the oldest change is kept.
reduceOldest(changes) == reduceOldestFrom(changes, changes[1], 2)

reduceLatest(changes) == reduceLatestFrom(changes, changes[1], 2)

\* Mutant of compareTimestamps: the window test is strict.
compareTimestampsStrict(localTime, apiTime, window) ==
    IF Abs(localTime - apiTime) < 1000 * Abs(window)
    THEN IF window > 0 THEN "api" ELSE "local"
    ELSE IF localTime > apiTime THEN "local" ELSE "api"

\* Mutant of compareTimestamps: outside the window the window rule is applied too.
compareTimestampsAlwaysWindow(localTime, apiTime, window) ==
    IF window > 0 THEN "api" ELSE "local"

\* diffSeconds = |localTime - apiTime| / 1000 compared with |window|;
\* both sides are scaled by 1000 to stay in the integers.
compareTimestamps(localTime, apiTime, window) ==
    IF Abs(localTime - apiTime) <= 1000 * Abs(window)
    THEN IF window > 0 THEN "api" ELSE "local"
    ELSE IF localTime > apiTime THEN "local" ELSE "api"

resolveMultiple(pending, window) ==
    LET apiChanges == FilterSource(pending, "api")
        localChanges == FilterSource(pending, "local")
    IN  IF Len(apiChanges) = 0 /\ Len(localChanges) > 0
        THEN [source |-> "local", changes |-> reduceLatest(localChanges).changes]
        ELSE IF Len(localChanges) = 0 /\ Len(apiChanges) > 0
        THEN [source |-> "api", changes |-> reduceLatest(apiChanges).changes]
        ELSE LET latestApi == reduceLatest(apiChanges)
                 latestLocal == reduceLatest(localChanges)
                 winner == compareTimestamps(latestLocal.timestamp, latestApi.timestamp, window)
             IN  IF winner = "api"
                 THEN [source |-> "api", changes |-> latestApi.changes]
                 ELSE [source |-> "local", changes |-> latestLocal.changes]

\* Mutant of resolveConflicts: a single pending change is treated as "no conflict".
resolveConflictsSingleDropped(pending, window) ==
    IF Len(pending) <= 1 THEN NoResolution
    ELSE resolveMultiple(pending, window)

resolveConflicts(pending, window) ==
    IF Len(pending) = 0 THEN NoResolution
    ELSE IF Len(pending) = 1
    THEN [source |-> pending[1].source, changes |-> pending[1].changes]
    ELSE resolveMultiple(pending, window)

(***************************************************************************)
(* Documents, task lines and the task-line codec (taskParser.ts, utils.ts).*)
(* A line is kept as its tokens; only task lines without user labels occur.*)
(***************************************************************************)
Paths == {"X", "Y"}
Contents == {"A", "B"}
NoTid == 0             \* extractTID(line) = null, parent_tid = null
NoContent == ""        \* parent_content = null
NoPath == ""
NoError == ""          \* runSync has not thrown

\* parseTaskLine: a field that has no marker on the line parses to undefined,
\* written 0 (priority, duration) or "" (due date).
parseTaskLine(line) ==
    [content |-> line.text, completed |-> line.done, due |-> line.due,
     prio |-> line.prio, dur |-> line.dur, tid |-> line.tid]

parseTaskContent(line) == line.text
extractTID(line) == line.tid
getIndentLevel(line) == line.indent

\* buildTaskLine followed by the indentation prefix: priority 1 (and undefined)
\* gets no marker; a due date, a duration and a tid get one when present.
buildTaskLine(data, indent) ==
    [indent |-> indent, done |-> data.completed, text |-> data.content,
     prio |-> IF data.prio # 0 /\ data.prio # 1 THEN data.prio ELSE 0,
     due |-> data.due, dur |-> data.dur, tid |-> data.tid]

\* The host's outline (MetadataCache.listItems[].parent): the nearest preceding
\* list item with a smaller indentation, 0 for a root item.
ParentLine(lines, i) ==
    LET above == {j \in 1..(i - 1) : lines[j].indent < lines[i].indent}
    IN  IF above = {} THEN 0 ELSE CHOOSE j \in above : \A k \in above : k <= j

\* processFile, PHASE 1: allTasks with parent_tid / parent_content.
scanTask(lines, i) ==
    LET p == ParentLine(lines, i)
    IN  [lineNum |-> i, line |-> lines[i], tid |-> extractTID(lines[i]),
         parent_tid |-> IF p # 0 THEN extractTID(lines[p]) ELSE NoTid,
         parent_content |-> IF p # 0 /\ extractTID(lines[p]) = NoTid
                            THEN parseTaskContent(lines[p]) ELSE NoContent]

scanFile(lines) == [i \in 1..Len(lines) |-> scanTask(lines, i)]
newTasksOf(allTasks) == SelectSeq(allTasks, LAMBDA t : t.tid = NoTid)
existingTasksOf(allTasks) == SelectSeq(allTasks, LAMBDA t : t.tid # NoTid)

(***************************************************************************)
(* Level-by-level creation (processNewTasks).                              *)
(***************************************************************************)
\* newTasks.find(t => parseTaskContent(t.line) === content && t.lineNum < before):
\* the index in newTasks of the first match, 0 when there is none.
findNewTask(newTasks, content, before) ==
    LET hits == {k \in 1..Len(newTasks) :
                    /\ parseTaskContent(newTasks[k].line) = content
                    /\ newTasks[k].lineNum < before}
    IN  IF hits = {} THEN 0 ELSE CHOOSE k \in hits : \A h \in hits : k <= h

\* newTasks.find(t => parseTaskContent(t.line) === content): first match, 0 for none.
findOriginalTask(newTasks, content) ==
    LET hits == {k \in 1..Len(newTasks) : parseTaskContent(newTasks[k].line) = content}
    IN  IF hits = {} THEN 0 ELSE CHOOSE k \in hits : \A h \in hits : k <= h

RECURSIVE calculateTaskLevelFrom(_, _, _, _)
calculateTaskLevelFrom(newTasks, cur, level, visited) ==
    IF newTasks[cur].parent_content = NoContent
    THEN level + (IF newTasks[cur].parent_tid # NoTid THEN 1 ELSE 0)
    ELSE IF newTasks[cur].lineNum \in visited THEN 0
    ELSE LET parent == findNewTask(newTasks, newTasks[cur].parent_content, newTasks[cur].lineNum)
         IN  IF parent = 0
             THEN level + (IF newTasks[cur].parent_tid # NoTid THEN 1 ELSE 0)
             ELSE calculateTaskLevelFrom(newTasks, parent, level + 1,
                                         visited \cup {newTasks[cur].lineNum})

calculateTaskLevel(newTasks, k) == calculateTaskLevelFrom(newTasks, k, 0, {})

\* Step 1 of processNewTasks: the level of newTasks[k].
taskLevel(newTasks, k) ==
    IF newTasks[k].parent_tid # NoTid THEN 1
    ELSE IF newTasks[k].parent_content # NoContent
    THEN LET parent == findNewTask(newTasks, newTasks[k].parent_content, newTasks[k].lineNum)
         IN  IF parent # 0 THEN calculateTaskLevel(newTasks, parent) + 1 ELSE 0
    ELSE 0

levelTasksOf(newTasks, level) ==
    SelectSeq([k \in 1..Len(newTasks) |-> [task |-> newTasks[k], level |-> taskLevel(newTasks, k)]],
              LAMBDA twl : twl.level = level)

maxLevelOf(newTasks) ==
    LET ls == {taskLevel(newTasks, k) : k \in 1..Len(newTasks)}
    IN  CHOOSE l \in ls : \A m \in ls : m <= l

\* Step 3: parent_id of a create command.
resolveParentId(task, c2t) ==
    IF task.parent_tid # NoTid THEN task.parent_tid
    ELSE IF task.parent_content # NoContent /\ task.parent_content \in DOMAIN c2t
    THEN c2t[task.parent_content]
    ELSE NoTid

\* The item_add commands of one level; lineNum is kept to tell the commands apart.
buildCreateCommands(levelTasks, c2t) ==
    [i \in 1..Len(levelTasks) |->
        [lineNum |-> levelTasks[i].task.lineNum,
         content |-> parseTaskLine(levelTasks[i].task.line).content,
         parent_id |-> resolveParentId(levelTasks[i].task, c2t)]]

\* contentToTid.set(content, realTID) for the tasks of a level, in order.
RECURSIVE storeContentToTid(_, _, _, _)
storeContentToTid(c2t, levelTasks, ids, i) ==
    IF i > Len(levelTasks) THEN c2t
    ELSE LET content == parseTaskContent(levelTasks[i].task.line)
         IN  storeContentToTid([c \in DOMAIN c2t \cup {content} |->
                                   IF c = content THEN ids[i] ELSE c2t[c]],
                               levelTasks, ids, i + 1)

\* Step 4: parent_tid stored for a new record: originalTask?.parent_tid || null.
newRecordParent(originalTask) == originalTask.parent_tid

\* Step 4, vault.process callback: insert the tids by content match and add the
\* records.  st = [lines, db, written].
RECURSIVE writeTidsFrom(_, _, _, _, _, _)
writeTidsFrom(st, i, c2t, newTasks, path, time) ==
    IF i > Len(st.lines) THEN st
    ELSE LET line == st.lines[i]
             content == parseTaskContent(line)
             skip == \/ extractTID(line) # NoTid
                     \/ content \notin DOMAIN c2t
                     \/ (content \in DOMAIN c2t /\ c2t[content] \in st.written)
         IN  IF skip THEN writeTidsFrom(st, i + 1, c2t, newTasks, path, time)
             ELSE LET realTID == c2t[content]
                      data == [parseTaskLine(line) EXCEPT !.tid = realTID]
                      orig == findOriginalTask(newTasks, content)
                      rec == [filepath |-> path, content |-> data.content,
                              completed |-> data.completed, due |-> data.due,
                              prio |-> data.prio, dur |-> data.dur,
                              parent_tid |-> IF orig = 0 THEN NoTid
                                             ELSE newRecordParent(newTasks[orig]),
                              lastSyncedAt |-> time, pending_changes |-> <<>>]
                  IN  writeTidsFrom(
                          [lines |-> [st.lines EXCEPT ![i] = buildTaskLine(data, getIndentLevel(line))],
                           db |-> [t \in DOMAIN st.db \cup {realTID} |->
                                      IF t = realTID THEN rec ELSE st.db[t]],
                           written |-> st.written \cup {realTID}],
                          i + 1, c2t, newTasks, path, time)

\* Created remotely but matched by no line: deleted again, fire and forget.
ghostTidsOf(c2t, written) == {c2t[c] : c \in DOMAIN c2t} \ written

(***************************************************************************)
(* Pending changes and reconciliation (reconcileFileTasks).                *)
(***************************************************************************)
SuppressionMs == 5000  \* window of the self-write suppression, in ms

\* changes of a deletion: { deleted: true }; the other fields are absent.
DeletedChanges ==
    [deleted |-> TRUE, content |-> "", completed |-> FALSE, due |-> "",
     prio |-> 0, dur |-> 0, hasParent |-> FALSE, parent_tid |-> NoTid]

\* changes of a local edit: every parsed field and the resolved parent.
localChanges(data, resolvedParentTid) ==
    [deleted |-> FALSE, content |-> data.content, completed |-> data.completed,
     due |-> data.due, prio |-> data.prio, dur |-> data.dur,
     hasParent |-> TRUE, parent_tid |-> resolvedParentTid]

\* changes of a pulled item: no parent_tid key.
apiChanges(item) ==
    [deleted |-> FALSE, content |-> item.content, completed |-> item.checked,
     due |-> item.due, prio |-> item.priority, dur |-> item.duration,
     hasParent |-> FALSE, parent_tid |-> NoTid]

\* Mutant of deletedChange: the vanished line is recorded as a remote deletion.
deletedChangeAsApi(time) ==
    [source |-> "api", timestamp |-> time, changes |-> DeletedChanges]

\* The pending change pushed for a record whose id is found nowhere.
deletedChange(time) ==
    [source |-> "local", timestamp |-> time, changes |-> DeletedChanges]

\* Mutant of reconcileTask: no self-write suppression.
reconcileTaskUnsuppressed(dbx, task, path, fileMtime, c2t) ==
    IF task.tid \notin DOMAIN dbx THEN dbx
    ELSE LET dbTask == [dbx[task.tid] EXCEPT !.filepath = path]
             resolvedParentTid ==
                 IF task.parent_content # NoContent /\ task.parent_tid = NoTid
                 THEN IF task.parent_content \in DOMAIN c2t
                      THEN c2t[task.parent_content] ELSE NoTid
                 ELSE task.parent_tid
             data == parseTaskLine(task.line)
             changed == \/ resolvedParentTid # dbTask.parent_tid
                        \/ data.content # dbTask.content
                        \/ data.completed # dbTask.completed
                        \/ data.due # dbTask.due
                        \/ data.prio # dbTask.prio
                        \/ data.dur # dbTask.dur
         IN  IF changed
             THEN [dbx EXCEPT ![task.tid] =
                     [dbTask EXCEPT !.pending_changes =
                         Append(@, [source |-> "local", timestamp |-> fileMtime,
                                    changes |-> localChanges(data, resolvedParentTid)])]]
             ELSE [dbx EXCEPT ![task.tid] = dbTask]

\* PART 1, one iteration: an existing task of the scan against its record.
reconcileTask(dbx, task, path, fileMtime, c2t) ==
    IF task.tid \notin DOMAIN dbx THEN dbx
    ELSE LET dbTask == [dbx[task.tid] EXCEPT !.filepath = path]
             resolvedParentTid ==
                 IF task.parent_content # NoContent /\ task.parent_tid = NoTid
                 THEN IF task.parent_content \in DOMAIN c2t
                      THEN c2t[task.parent_content] ELSE NoTid
                 ELSE task.parent_tid
             data == parseTaskLine(task.line)
             changed == \/ resolvedParentTid # dbTask.parent_tid
                        \/ data.content # dbTask.content
                        \/ data.completed # dbTask.completed
                        \/ data.due # dbTask.due
                        \/ data.prio # dbTask.prio
                        \/ data.dur # dbTask.dur
             recentlyModifiedByUs ==
                 /\ dbTask.lastSyncedAt # 0
                 /\ Abs(fileMtime - dbTask.lastSyncedAt) < SuppressionMs
         IN  IF changed /\ ~recentlyModifiedByUs
             THEN [dbx EXCEPT ![task.tid] =
                     [dbTask EXCEPT !.pending_changes =
                         Append(@, [source |-> "local", timestamp |-> fileMtime,
                                    changes |-> localChanges(data, resolvedParentTid)])]]
             ELSE [dbx EXCEPT ![task.tid] = dbTask]

RECURSIVE reconcileExisting(_, _, _, _, _, _)
reconcileExisting(dbx, existingTasks, i, path, fileMtime, c2t) ==
    IF i > Len(existingTasks) THEN dbx
    ELSE reconcileExisting(reconcileTask(dbx, existingTasks[i], path, fileMtime, c2t),
                           existingTasks, i + 1, path, fileMtime, c2t)

\* vault.getMarkdownFiles(), all of them sync-enabled.
PathOrder == <<"X", "Y">>

\* searchVaultForTID: the first other document holding a line with the id.
searchVaultForTID(tid, vaultFiles, excludePath) ==
    LET hits == {k \in 1..Len(PathOrder) :
                    /\ PathOrder[k] # excludePath
                    /\ \E i \in 1..Len(vaultFiles[PathOrder[k]]) :
                           extractTID(vaultFiles[PathOrder[k]][i]) = tid}
    IN  IF hits = {} THEN NoPath
        ELSE PathOrder[CHOOSE k \in hits : \A h \in hits : k <= h]

\* The ids PART 2 looks for: records of this document whose id the scan did not see.
tidsInFileOf(existingTasks, c2t) ==
    {existingTasks[i].tid : i \in 1..Len(existingTasks)} \cup {c2t[c] : c \in DOMAIN c2t}

missingTidsOf(dbx, path, existingTasks, c2t) ==
    {t \in DOMAIN dbx : dbx[t].filepath = path /\ t \notin tidsInFileOf(existingTasks, c2t)}

\* PART 2: a record of this document whose id is not in it has moved or is deleted.
reconcileMissing(dbx, path, existingTasks, c2t, vaultFiles, time) ==
    [t \in DOMAIN dbx |->
        IF t \in missingTidsOf(dbx, path, existingTasks, c2t)
        THEN LET newLocation == searchVaultForTID(t, vaultFiles, path)
             IN  IF newLocation # NoPath
                 THEN [dbx[t] EXCEPT !.filepath = newLocation]
                 ELSE [dbx[t] EXCEPT !.pending_changes = Append(@, deletedChange(time))]
        ELSE dbx[t]]

reconcileFileTasks(dbx, path, existingTasks, c2t, vaultFiles, fileMtime, time) ==
    reconcileMissing(reconcileExisting(dbx, existingTasks, 1, path, fileMtime, c2t),
                     path, existingTasks, c2t, vaultFiles, time)

\* Object.entries order of numeric keys: ascending.
RECURSIVE SortedSeq(_)
SortedSeq(S) ==
    IF S = {} THEN <<>>
    ELSE LET m == CHOOSE x \in S : \A y \in S : x <= y
         IN  <<m>> \o SortedSeq(S \ {m})

\* What searchVaultForTID can read: the documents with todoist-sync: true.
syncEnabledFiles(vaultFiles, en) ==
    [p \in Paths |-> IF p \in en THEN vaultFiles[p] ELSE <<>>]

\* PART 2, the destinations found for the missing ids, in the order of the loop.
movedTargetsOf(dbx, path, existingTasks, c2t, vaultFiles) ==
    LET tids == SortedSeq(missingTidsOf(dbx, path, existingTasks, c2t))
        found == SelectSeq(tids, LAMBDA t : searchVaultForTID(t, vaultFiles, path) # NoPath)
    IN  [k \in 1..Len(found) |-> searchVaultForTID(found[k], vaultFiles, path)]

\* Mutant of queueMoved: the destination is pushed without looking at queuedPaths.
RECURSIVE queueMovedAlways(_, _, _)
queueMovedAlways(q, moved, i) ==
    IF i > Len(moved) THEN q
    ELSE queueMovedAlways(Append(q, moved[i]), moved, i + 1)

\* files.push(newLocation) unless queuedPaths has its path.
RECURSIVE queueMoved(_, _, _)
queueMoved(q, moved, i) ==
    IF i > Len(moved) THEN q
    ELSE queueMoved(IF \E k \in 1..Len(q) : q[k] = moved[i] THEN q ELSE Append(q, moved[i]),
                    moved, i + 1)

(***************************************************************************)
(* Resolve and apply (resolveAndApplyUpdates).                             *)
(***************************************************************************)
MAX_DEPTH == 20

Put(f, k, v) == [x \in DOMAIN f \cup {k} |-> IF x = k THEN v ELSE f[x]]
RemoveKey(f, k) == [x \in DOMAIN f \ {k} |-> f[x]]

\* db.getModifiedTasks() filtered to this document.
tasksToUpdateOf(dbx, path) ==
    SortedSeq({t \in DOMAIN dbx : dbx[t].pending_changes # <<>> /\ dbx[t].filepath = path})

\* Mutant of finishTask: the pending changes are kept.
finishTaskKeepPending(task, time) ==
    [task EXCEPT !.lastSyncedAt = time]

\* task.pending_changes = []; task.lastSyncedAt = Date.now().
finishTask(task, time) ==
    [task EXCEPT !.pending_changes = <<>>, !.lastSyncedAt = time]

DefaultProjectId == "inbox"     \* settings.defaultProjectId

\* Mutant of resolveParent: the parent's document is not looked at.
resolveParentAnyFile(dbx, task, ch) ==
    IF ch.hasParent THEN ch.parent_tid ELSE task.parent_tid

\* PHASE 4, cross-file parent validation: the parent the record gets.
resolveParent(dbx, task, ch) ==
    IF ch.hasParent
    THEN IF /\ ch.parent_tid # NoTid
            /\ ch.parent_tid \in DOMAIN dbx
            /\ dbx[ch.parent_tid].filepath # task.filepath
         THEN NoTid
         ELSE ch.parent_tid
    ELSE task.parent_tid

\* The stored fields after a winning change: content falls back to the stored one.
updatedTask(task, ch, resolvedParentTid) ==
    [task EXCEPT !.content = IF ch.content # "" THEN ch.content ELSE task.content,
                 !.completed = ch.completed,
                 !.due = ch.due,
                 !.prio = ch.prio,
                 !.dur = ch.dur,
                 !.parent_tid = resolvedParentTid]

\* The TaskData the rewritten line is built from.
updatedData(task, ch, tid) ==
    [content |-> IF ch.content # "" THEN ch.content ELSE task.content,
     completed |-> ch.completed, due |-> ch.due, prio |-> ch.prio, dur |-> ch.dur,
     tid |-> tid]

\* Mutant of applyDeletion: a deletion is sent to the remote whatever its origin.
applyDeletionBothSides(st, tid, resolution) ==
    [st EXCEPT
        !.db = RemoveKey(@, tid),
        !.apiDeletions = Append(@, tid),
        !.fileDeletions = IF resolution.source = "local" THEN @ ELSE Append(@, tid),
        !.resolved = Put(@, tid, resolution)]

\* "delete always wins": the record is dropped, the other side is told.
applyDeletion(st, tid, resolution) ==
    [st EXCEPT
        !.db = RemoveKey(@, tid),
        !.apiDeletions = IF resolution.source = "local" THEN Append(@, tid) ELSE @,
        !.fileDeletions = IF resolution.source = "local" THEN @ ELSE Append(@, tid),
        !.resolved = Put(@, tid, resolution)]

\* Local wins: queue the remote update (and move), advance the record.
applyLocalWin(st, tid, time, resolution, resolvedParentTid) ==
    [st EXCEPT
        !.apiUpdates = Append(@, [id |-> tid, content |-> resolution.changes.content,
                                  checked |-> resolution.changes.completed,
                                  due |-> resolution.changes.due,
                                  priority |-> resolution.changes.prio,
                                  duration |-> resolution.changes.dur]),
        !.apiMoves = IF resolvedParentTid = st.db[tid].parent_tid
                     THEN @
                     ELSE IF resolvedParentTid = NoTid
                     THEN Append(@, [id |-> tid, parent_id |-> NoTid,
                                     project_id |-> DefaultProjectId])
                     ELSE Append(@, [id |-> tid, parent_id |-> resolvedParentTid]),
        !.db = [@ EXCEPT ![tid] =
                   finishTask(updatedTask(@, resolution.changes, resolvedParentTid), time)],
        !.resolved = Put(@, tid, resolution)]

\* Remote wins: queue the line rewrite, advance the record.
applyApiWin(st, tid, time, resolution, resolvedParentTid) ==
    [st EXCEPT
        !.fileUpdates = Append(@,
            [tid |-> tid,
             newContent |-> buildTaskLine(updatedData(st.db[tid], resolution.changes, tid), 0),
             needsReposition |-> resolution.changes.hasParent
                                 /\ resolvedParentTid # st.db[tid].parent_tid]),
        !.db = [@ EXCEPT ![tid] =
                   finishTask(updatedTask(@, resolution.changes, resolvedParentTid), time)],
        !.resolved = Put(@, tid, resolution)]

applyResolution(st, tid, time, resolution) ==
    IF resolution = NoResolution
    THEN [st EXCEPT !.db = [@ EXCEPT ![tid] = [@ EXCEPT !.pending_changes = <<>>]]]
    ELSE IF resolution.changes.deleted
    THEN applyDeletion(st, tid, resolution)
    ELSE IF resolution.source = "local"
    THEN applyLocalWin(st, tid, time, resolution,
                       resolveParent(st.db, st.db[tid], resolution.changes))
    ELSE applyApiWin(st, tid, time, resolution,
                     resolveParent(st.db, st.db[tid], resolution.changes))

\* One iteration of the resolution loop.
resolveTask(st, tid, time, window) ==
    applyResolution(st, tid, time, resolveConflicts(st.db[tid].pending_changes, window))

RECURSIVE resolveLoop(_, _, _, _, _)
resolveLoop(st, tids, i, time, window) ==
    IF i > Len(tids) THEN st
    ELSE resolveLoop(resolveTask(st, tids[i], time, window), tids, i + 1, time, window)

\* deleteTasksFromFile (vault.process branch).
deleteTasksFromFile(lines, taskIds) ==
    SelectSeq(lines, LAMBDA l : ~(extractTID(l) # NoTid /\ extractTID(l) \in taskIds))

\* tidToLineNum.get(tid): the last line carrying the id, 0 when there is none.
tidToLineNum(lines, tid) ==
    LET hits == {i \in 1..Len(lines) : extractTID(lines[i]) = tid}
    IN  IF tid = NoTid \/ hits = {} THEN 0 ELSE CHOOSE i \in hits : \A h \in hits : h <= i

\* In-place updates: the new content under the current line's indentation.
RECURSIVE applyInPlace(_, _, _, _)
applyInPlace(lines, orig, fileUpdates, i) ==
    IF i > Len(fileUpdates) THEN lines
    ELSE LET u == fileUpdates[i]
             n == tidToLineNum(orig, u.tid)
         IN  IF u.needsReposition \/ n = 0
             THEN applyInPlace(lines, orig, fileUpdates, i + 1)
             ELSE applyInPlace(
                      [lines EXCEPT ![n] = [u.newContent EXCEPT !.indent = getIndentLevel(lines[n])]],
                      orig, fileUpdates, i + 1)

RECURSIVE calculateIndentFrom(_, _, _, _, _)
calculateIndentFrom(currentTid, depth, visited, dbx, orig) ==
    IF currentTid = NoTid \/ depth >= MAX_DEPTH THEN depth
    ELSE IF currentTid \in visited THEN 0
    ELSE IF currentTid \notin DOMAIN dbx THEN depth
    ELSE IF dbx[currentTid].parent_tid = NoTid THEN depth
    ELSE IF tidToLineNum(orig, dbx[currentTid].parent_tid) = 0 THEN depth
    ELSE calculateIndentFrom(dbx[currentTid].parent_tid, depth + 1,
                             visited \cup {currentTid}, dbx, orig)

calculateIndentFromParentChain(taskTid, dbx, orig) ==
    calculateIndentFrom(taskTid, 0, {}, dbx, orig)

\* The number of lines that precede the insert position.
findSiblingInsertPosition(taskTid, parentTid, path, dbx, orig) ==
    LET siblings == {tidToLineNum(orig, t) :
                        t \in {u \in DOMAIN dbx : /\ dbx[u].filepath = path
                                                  /\ u # taskTid
                                                  /\ dbx[u].parent_tid = parentTid
                                                  /\ tidToLineNum(orig, u) # 0}}
    IN  IF siblings # {} THEN CHOOSE n \in siblings : \A m \in siblings : m <= n
        ELSE IF parentTid # NoTid /\ tidToLineNum(orig, parentTid) # 0
        THEN tidToLineNum(orig, parentTid)
        ELSE Len(orig)

\* The repositions collected by the write-back callback: old line, position, content.
RECURSIVE collectRepositions(_, _, _, _, _, _)
collectRepositions(acc, lines, fileUpdates, i, path, dbx) ==
    IF i > Len(fileUpdates) THEN acc
    ELSE LET u == fileUpdates[i]
             n == tidToLineNum(lines, u.tid)
         IN  IF ~u.needsReposition \/ n = 0 \/ u.tid \notin DOMAIN dbx
             THEN collectRepositions(acc, lines, fileUpdates, i + 1, path, dbx)
             ELSE collectRepositions(
                      Append(acc,
                          [oldLine |-> n,
                           position |-> findSiblingInsertPosition(u.tid, dbx[u.tid].parent_tid,
                                                                  path, dbx, lines),
                           content |-> buildTaskLine(
                               [parseTaskLine(lines[n]) EXCEPT !.tid = u.tid],
                               calculateIndentFromParentChain(u.tid, dbx, lines))]),
                      lines, fileUpdates, i + 1, path, dbx)

RemoveLines(lines, idx) ==
    LET keep == SortedSeq({i \in 1..Len(lines) : i \notin idx})
    IN  [k \in 1..Len(keep) |-> lines[keep[k]]]

InsertAt(lines, pos, line) ==
    SubSeq(lines, 1, pos) \o <<line>> \o SubSeq(lines, pos + 1, Len(lines))

\* inserts.sort by position descending (stable), each spliced at its adjusted position.
RECURSIVE applyInserts(_, _, _)
applyInserts(lines, inserts, deleted) ==
    IF inserts = <<>> THEN lines
    ELSE LET top == CHOOSE k \in 1..Len(inserts) :
                        /\ \A j \in 1..Len(inserts) : inserts[j].position <= inserts[k].position
                        /\ \A j \in 1..(k - 1) : inserts[j].position < inserts[k].position
             before == Cardinality({d \in deleted : d - 1 < inserts[top].position})
             raw == inserts[top].position - before
             adjusted == IF raw < 0 THEN 0 ELSE IF raw > Len(lines) THEN Len(lines) ELSE raw
         IN  applyInserts(InsertAt(lines, adjusted, inserts[top].content),
                          SubSeq(inserts, 1, top - 1) \o SubSeq(inserts, top + 1, Len(inserts)),
                          deleted)

\* The repositions applied: old lines removed, new lines spliced in.
applyRepositions(inPlace, repos) ==
    applyInserts(RemoveLines(inPlace, {repos[k].oldLine : k \in 1..Len(repos)}), repos,
                 {repos[k].oldLine : k \in 1..Len(repos)})

\* In-place updates first, repositions are computed on their result.
repositionAfter(inPlace, fileUpdates, path, dbx) ==
    applyRepositions(inPlace, collectRepositions(<<>>, inPlace, fileUpdates, 1, path, dbx))

\* PHASE 5 write-back callback (vault.process branch).
applyFileUpdates(lines, fileUpdates, path, dbx) ==
    repositionAfter(applyInPlace(lines, lines, fileUpdates, 1), fileUpdates, path, dbx)

\* What follows the resolution loop: line deletions, then the write-back.
writeBack(path, lines, st) ==
    [db |-> st.db,
     lines |-> IF st.fileUpdates = <<>>
               THEN deleteTasksFromFile(lines, {st.fileDeletions[k] : k \in 1..Len(st.fileDeletions)})
               ELSE applyFileUpdates(
                        deleteTasksFromFile(lines, {st.fileDeletions[k] :
                                                       k \in 1..Len(st.fileDeletions)}),
                        st.fileUpdates, path, st.db),
     apiUpdates |-> st.apiUpdates, apiMoves |-> st.apiMoves,
     apiDeletions |-> st.apiDeletions, resolved |-> st.resolved]

\* The resolution loop of one document and the write-back; nothing is sent or
\* written when no record of the document has a pending change.
resolveAndApplyUpdates(path, lines, dbx, time, window) ==
    writeBack(path, lines,
              resolveLoop([db |-> dbx, apiUpdates |-> <<>>, apiMoves |-> <<>>,
                           fileUpdates |-> <<>>, apiDeletions |-> <<>>,
                           fileDeletions |-> <<>>, resolved |-> [x \in {} |-> x]],
                          tasksToUpdateOf(dbx, path), 1, time, window))

(***************************************************************************)
(* State.                                                                  *)
(***************************************************************************)
VARIABLES rsPending, rsWindow, rsResult, rsDone
VARIABLES files, mtime, now, db, nextId, window
VARIABLES pc, cur, scan, level, contentToTid, cmds, passError, resolved, missing
VARIABLES edits, pulls, unscanned
VARIABLES syncing, cyPc, activeFilePath, modifiedFiles, lastSync, enabled
VARIABLES cycles, activeCycles, rejected, saves, cycleError, startedAt, pendingAfterPull
VARIABLES queue, queuedPaths, qi, processed, finished
VARIABLES plPc, plCursor, plResult, requests, rqPc, attempt, retryDelay, waits, fetches
VARIABLES batchPc, batchOp, batchItems, batchCalls, batchError
VARIABLES lbPc, lbInline, lbFront, lbLine, lbRecord, lbChanged
VARIABLES pulled
VARIABLES wbPc, wbDb, wbLines, wbOrig, wbUpdates, wbLevel, wbTodo, wbWritten, wbDepth
VARIABLES psPc, settingsToken, remoteLog, persisted

\* rsPending, rsWindow, rsResult, rsDone: arguments and result of one resolveConflicts call.
\* files: path -> lines; mtime: path -> file.stat.mtime; now: Date.now();
\* db: settings.tasks; nextId: the next id the remote service assigns;
\* window: settings.conflictResolutionWindow.
\* pc, cur, scan, level, contentToTid: position and locals of the running processFile;
\* cmds: the batches the running (or last) processFile sent to the remote service;
\* passError: the last processFile threw; resolved: the winning resolution of each
\* record the last resolution loop handled; missing: the ids the last reconciliation
\* found in no document, with whether a remote-origin change was pending.
\* edits, pulls: user edits and pulled items so far; unscanned: the documents the
\* user has modified since processFile last read them.
\* syncing: the in-progress flag of the plugin; cyPc: position of the running runSync;
\* activeFilePath, modifiedFiles: locals of runSync; lastSync: settings.lastSync;
\* enabled: the documents whose frontmatter has todoist-sync: true.
\* cycles, activeCycles, rejected: cycles begun, cycles running, requests rejected;
\* saves: successful saveData calls of the running (or last) cycle; cycleError: the step at
\* which the last runSync threw ("pull", "save") or NoError; startedAt: lastSync and the modification times when the cycle began;
\* pendingAfterPull: the documents owning a record with pending changes after the pull.
\* queue, queuedPaths, qi: files, queuedPaths and i of processFilesSequentially;
\* processed: the documents whose processFile has begun in this cycle, in order;
\* finished: how many of them have returned or thrown.
\* plPc, plCursor, plResult: position, sync_token argument and outcome of one syncPull
\* (response: which HTTP attempt's items it returns, 0 when it threw);
\* requests: the sync_token of each todoistSyncRequest call it made;
\* rqPc, attempt, retryDelay: position and locals of the running todoistSyncRequest;
\* waits: the delays it slept; fetches: the HTTP attempts it made.
\* batchPc, batchOp, batchItems: position, kind and length of the list a caller hands
\* to a batch function; batchCalls: the lengths of the command lists sent for it;
\* batchError: the batch function threw.
\* lbInline, lbFront: the labels typed on one task line and the todoist-labels of its
\* document; lbLine: the labels on the line as it stands; lbRecord: the labels of its
\* record; lbChanged: the last reconciliation recorded a local change for it; lbPc: the
\* position of the line in its life (new, written, compared).
\* pulled: the items the last pullFromTodoist of a cycle received.
\* wbDb, wbOrig, wbUpdates: the store, the document and the fileUpdates one write-back
\* starts from; wbLines: the document as the write-back has it; wbLevel, wbTodo: the
\* level being processed and the updates of it still to write; wbWritten: the updates
\* written so far, in order, each with whether its line was moved; wbPc: the position
\* of the write-back; wbDepth: the last depth computed for a record of wbDb.
\* settingsToken: settings.syncToken, as the number of remote changes it covers;
\* remoteLog: the changes made on the remote service, oldest first; persisted: the
\* content of data.json and the function that wrote it; psPc: the position of the
\* cycle between its awaits.
rsVars == <<rsPending, rsWindow, rsResult, rsDone>>
docVars == <<files, mtime, now, db, nextId, window>>
passVars == <<pc, cur, scan, level, contentToTid, cmds, passError, resolved, missing>>
envVars == <<edits, pulls, unscanned>>
cycleVars == <<syncing, cyPc, activeFilePath, modifiedFiles, lastSync, enabled,
               cycles, activeCycles, rejected, saves, cycleError, startedAt, pendingAfterPull>>
queueVars == <<queue, queuedPaths, qi, processed, finished>>
batchVars == <<batchPc, batchOp, batchItems, batchCalls, batchError>>
labelVars == <<lbPc, lbInline, lbFront, lbLine, lbRecord, lbChanged>>
wbVars == <<wbPc, wbDb, wbLines, wbOrig, wbUpdates, wbLevel, wbTodo, wbWritten, wbDepth>>
persistVars == <<psPc, settingsToken, remoteLog, persisted>>
auxVars == <<lbPc, lbInline, lbFront, lbLine, lbRecord, lbChanged, pulled, wbVars, persistVars>>
reqVars == <<plPc, plCursor, plResult, requests, rqPc, attempt, retryDelay, waits, fetches,
            batchPc, batchOp, batchItems, batchCalls, batchError,
            lbPc, lbInline, lbFront, lbLine, lbRecord, lbChanged, pulled,
            wbVars, persistVars>>
vars == <<rsPending, rsWindow, rsResult, rsDone, files, mtime, now, db, nextId, window,
          pc, cur, scan, level, contentToTid, cmds, passError, resolved, missing,
          edits, pulls, unscanned,
          syncing, cyPc, activeFilePath, modifiedFiles, lastSync, enabled,
          cycles, activeCycles, rejected, saves, cycleError, startedAt, pendingAfterPull,
          queue, queuedPaths, qi, processed, finished,
          plPc, plCursor, plResult, requests, rqPc, attempt, retryDelay, waits, fetches,
          batchPc, batchOp, batchItems, batchCalls, batchError,
          lbPc, lbInline, lbFront, lbLine, lbRecord, lbChanged, pulled,
          wbPc, wbDb, wbLines, wbOrig, wbUpdates, wbLevel, wbTodo, wbWritten, wbDepth,
          psPc, settingsToken, remoteLog, persisted>>

PendingChangeSet == [source : Sources, timestamp : TsSet, changes : ChangeTags]

RECURSIVE SeqsUpTo(_, _)
SeqsUpTo(S, n) ==
    IF n = 0 THEN {<<>>}
    ELSE LET shorter == SeqsUpTo(S, n - 1)
         IN  shorter \cup {Append(s, x) : s \in {t \in shorter : Len(t) = n - 1}, x \in S}

EmptyFn == [x \in {} |-> x]

\* No resolver call in progress.
ResolverUnused ==
    /\ rsPending = <<>>
    /\ rsWindow = 0
    /\ rsResult = NoResolution
    /\ rsDone = FALSE

\* No processFile in progress.
PassIdle ==
    /\ pc = "idle" /\ cur = NoPath /\ scan = <<>> /\ level = 0
    /\ contentToTid = EmptyFn /\ cmds = <<>> /\ passError = FALSE
    /\ resolved = EmptyFn /\ missing = EmptyFn

\* No cycle requested yet; every document is sync-enabled.
CycleUnused ==
    /\ syncing = FALSE /\ cyPc = "idle" /\ activeFilePath = NoPath
    /\ modifiedFiles = <<>> /\ lastSync = 0 /\ enabled = Paths
    /\ cycles = 0 /\ activeCycles = 0 /\ rejected = 0 /\ saves = 0
    /\ cycleError = NoError
    /\ startedAt = [lastSync |-> 0, mtime |-> [p \in Paths |-> 0]]
    /\ pendingAfterPull = {}
    /\ queue = <<>> /\ queuedPaths = {} /\ qi = 0 /\ processed = <<>> /\ finished = 0

\* No task line with labels under consideration.
LabelsUnused ==
    /\ lbPc = "idle" /\ lbInline = <<>> /\ lbFront = <<>>
    /\ lbLine = <<>> /\ lbRecord = <<>> /\ lbChanged = FALSE

\* No write-back under consideration.
WriteBackUnused ==
    /\ wbPc = "idle" /\ wbDb = EmptyFn /\ wbLines = <<>> /\ wbOrig = <<>>
    /\ wbUpdates = <<>> /\ wbLevel = 0 /\ wbTodo = <<>> /\ wbWritten = <<>>
    /\ wbDepth = <<>>

\* Nothing saved and no remote change under consideration.
PersistUnused ==
    /\ psPc = "idle" /\ settingsToken = 0 /\ remoteLog = <<>>
    /\ persisted = [syncToken |-> 0, tasks |-> EmptyFn, by |-> ""]

AuxUnused == LabelsUnused /\ pulled = <<>> /\ WriteBackUnused /\ PersistUnused

\* No syncPull and no batch in progress.
ClientUnused ==
    /\ plPc = "idle" /\ plCursor = ""
    /\ plResult = [full_sync |-> FALSE, error |-> "", response |-> 0]
    /\ requests = <<>> /\ rqPc = "idle" /\ attempt = 0 /\ retryDelay = 0
    /\ waits = <<>> /\ fetches = <<>>
    /\ batchPc = "idle" /\ batchOp = "" /\ batchItems = 0 /\ batchCalls = <<>>
    /\ batchError = FALSE

RequestUnused == ClientUnused /\ AuxUnused

\* An empty vault and an empty store.
VaultUnused ==
    /\ files = [p \in Paths |-> <<>>]
    /\ mtime = [p \in Paths |-> 0]
    /\ now = 0
    /\ db = EmptyFn
    /\ nextId = 1
    /\ window = 0
    /\ PassIdle
    /\ edits = 0 /\ pulls = 0 /\ unscanned = {}
    /\ CycleUnused

EngineUnused == VaultUnused /\ RequestUnused

(***************************************************************************)
(* Resolver specification: inputs drawn from bounded sets, one call.       *)
(***************************************************************************)
InitResolve ==
    /\ rsPending \in SeqsUpTo(PendingChangeSet, MaxPending)
    /\ rsWindow \in WindowSet
    /\ rsResult = NoResolution
    /\ rsDone = FALSE
    /\ EngineUnused

ResolveCall ==
    /\ ~rsDone
    /\ rsResult' = resolveConflicts(rsPending, rsWindow)
    /\ rsDone' = TRUE
    /\ UNCHANGED <<rsPending, rsWindow>>
    /\ UNCHANGED <<docVars, passVars, envVars, reqVars, cycleVars, queueVars>>

NextResolve == ResolveCall

SpecResolve == InitResolve /\ [][NextResolve]_vars

(***************************************************************************)
(* processFile, step by step.  Each action runs the code between two       *)
(* awaits of the remote service.                                           *)
(***************************************************************************)
\* Mutant of StartFile: the loop does not await the processFile it started.
StartFileUnawaited(path) ==
    /\ Len(processed) - finished <= 1
    /\ cur' = path
    /\ scan' = scanFile(files[path])
    /\ level' = 0
    /\ contentToTid' = EmptyFn
    /\ cmds' = <<>>
    /\ passError' = FALSE
    /\ resolved' = EmptyFn
    /\ missing' = EmptyFn
    /\ pc' = IF newTasksOf(scanFile(files[path])) = <<>> THEN "reconcile" ELSE "create"
    /\ processed' = Append(processed, path)
    /\ UNCHANGED <<queue, queuedPaths, qi>>
    /\ unscanned' = unscanned \ {path}
    /\ UNCHANGED <<rsVars, reqVars, cycleVars, finished, docVars, edits, pulls>>

\* processFile up to the first await of processNewTasks: read and scan the document.
\* Inside a cycle the caller is the loop of processFilesSequentially; outside one the
\* document is handed to processFile alone, as processFilesSequentially([file]) does.
StartFile(path) ==
    /\ pc = "idle"
    /\ cur' = path
    /\ scan' = scanFile(files[path])
    /\ level' = 0
    /\ contentToTid' = EmptyFn
    /\ cmds' = <<>>
    /\ passError' = FALSE
    /\ resolved' = EmptyFn
    /\ missing' = EmptyFn
    /\ pc' = IF newTasksOf(scanFile(files[path])) = <<>> THEN "reconcile" ELSE "create"
    /\ IF cyPc = "process"
       THEN /\ processed' = Append(processed, path)
            /\ UNCHANGED <<queue, queuedPaths, qi>>
       ELSE /\ queue' = <<path>> /\ queuedPaths' = {path} /\ qi' = 1
            /\ UNCHANGED processed
    /\ unscanned' = unscanned \ {path}
    /\ UNCHANGED <<rsVars, reqVars, cycleVars, finished, docVars, edits, pulls>>

\* One iteration of the level loop: syncBatchCreate for the level and its outcome.
\* A failed batch is rethrown and ends processFile.
CreateLevel ==
    /\ pc = "create"
    /\ LET newTasks == newTasksOf(scan)
           levelTasks == levelTasksOf(newTasks, level)
           commands == buildCreateCommands(levelTasks, contentToTid)
           ids == [i \in 1..Len(levelTasks) |-> nextId + i - 1]
           last == level >= maxLevelOf(newTasks)
       IN  IF levelTasks = <<>>
           THEN /\ level' = level + 1
                /\ pc' = IF last THEN "writeTids" ELSE "create"
                /\ UNCHANGED <<contentToTid, cmds, passError, nextId>>
           ELSE /\ nextId + Len(levelTasks) <= MaxIds + 1
                /\ \E ok \in BOOLEAN :
                      IF ok
                      THEN /\ cmds' = Append(cmds, [type |-> "create", level |-> level,
                                                    commands |-> commands, ids |-> ids,
                                                    ok |-> TRUE])
                           /\ contentToTid' = storeContentToTid(contentToTid, levelTasks, ids, 1)
                           /\ nextId' = nextId + Len(levelTasks)
                           /\ level' = level + 1
                           /\ pc' = IF last THEN "writeTids" ELSE "create"
                           /\ UNCHANGED passError
                      ELSE /\ cmds' = Append(cmds, [type |-> "create", level |-> level,
                                                    commands |-> commands, ids |-> <<>>,
                                                    ok |-> FALSE])
                           /\ passError' = TRUE
                           /\ pc' = "done"
                           /\ UNCHANGED <<contentToTid, nextId, level>>
    /\ UNCHANGED <<rsVars, reqVars, cycleVars, queueVars, files, mtime, now, db, window,
                   cur, scan, resolved, missing, envVars>>

\* Step 4 of processNewTasks: ids written to the lines, records added, ghosts deleted.
WriteTids ==
    /\ pc = "writeTids"
    /\ \E r \in {writeTidsFrom([lines |-> files[cur], db |-> db, written |-> {}], 1,
                                contentToTid, newTasksOf(scan), cur, now)} :
           /\ files' = [files EXCEPT ![cur] = r.lines]
           /\ mtime' = [mtime EXCEPT ![cur] = IF r.lines # files[cur] THEN now ELSE @]
           /\ db' = r.db
           /\ cmds' = IF ghostTidsOf(contentToTid, r.written) = {} THEN cmds
                      ELSE Append(cmds, [type |-> "ghostDelete",
                                         tids |-> ghostTidsOf(contentToTid, r.written)])
    /\ pc' = "reconcile"
    /\ UNCHANGED <<rsVars, reqVars, cycleVars, queueVars, now, nextId, window, cur, scan,
                   level, contentToTid, passError, resolved, missing, envVars>>

\* reconcileFileTasks.
Reconcile ==
    /\ pc = "reconcile"
    /\ LET existingTasks == existingTasksOf(scan)
           afterPart1 == reconcileExisting(db, existingTasks, 1, cur, mtime[cur], contentToTid)
           gone == {t \in missingTidsOf(afterPart1, cur, existingTasks, contentToTid) :
                       searchVaultForTID(t, syncEnabledFiles(files, enabled), cur) = NoPath}
           moved == movedTargetsOf(afterPart1, cur, existingTasks, contentToTid,
                                   syncEnabledFiles(files, enabled))
       IN  /\ db' = reconcileFileTasks(db, cur, existingTasks, contentToTid,
                                       syncEnabledFiles(files, enabled), mtime[cur], now)
           /\ queue' = queueMoved(queue, moved, 1)
           /\ queuedPaths' = queuedPaths \cup {moved[k] : k \in 1..Len(moved)}
           /\ missing' = [t \in gone |->
                             \E k \in 1..Len(afterPart1[t].pending_changes) :
                                 afterPart1[t].pending_changes[k].source = "api"]
    /\ pc' = "resolve"
    /\ UNCHANGED <<rsVars, reqVars, cycleVars, qi, processed, finished, files, mtime, now,
                   nextId, window, cur, scan, level, contentToTid, cmds, passError,
                   resolved, envVars>>

\* resolveAndApplyUpdates: the loop, the three remote batches with their outcomes,
\* the line deletions and the write-back.
ResolveAndApply ==
    /\ pc = "resolve"
    /\ \E r \in {resolveAndApplyUpdates(cur, files[cur], db, now, window)} :
           /\ db' = r.db
           /\ files' = [files EXCEPT ![cur] = r.lines]
           /\ mtime' = [mtime EXCEPT ![cur] = IF r.lines # files[cur] THEN now ELSE @]
           /\ resolved' = r.resolved
           /\ \E okUpdate \in IF r.apiUpdates = <<>> THEN {TRUE} ELSE BOOLEAN,
                 okMove \in IF r.apiMoves = <<>> THEN {TRUE} ELSE BOOLEAN,
                 okDelete \in IF r.apiDeletions = <<>> THEN {TRUE} ELSE BOOLEAN :
                 cmds' = cmds
                     \o (IF r.apiUpdates = <<>> THEN <<>>
                         ELSE <<[type |-> "update", commands |-> r.apiUpdates, ok |-> okUpdate]>>)
                     \o (IF r.apiMoves = <<>> THEN <<>>
                         ELSE <<[type |-> "move", commands |-> r.apiMoves, ok |-> okMove]>>)
                     \o (IF r.apiDeletions = <<>> THEN <<>>
                         ELSE <<[type |-> "delete", commands |-> r.apiDeletions, ok |-> okDelete]>>)
    /\ pc' = "done"
    /\ UNCHANGED <<rsVars, reqVars, cycleVars, queueVars, now, nextId, window, cur, scan,
                   level, contentToTid, passError, missing, envVars>>

\* Mutant of FinishFile: an error of processFile leaves the loop of the cycle.
FinishFileAbortsOnError ==
    /\ pc = "done"
    /\ pc' = "idle" /\ cur' = NoPath /\ scan' = <<>> /\ level' = 0
    /\ contentToTid' = EmptyFn /\ cmds' = <<>> /\ passError' = FALSE
    /\ resolved' = EmptyFn /\ missing' = EmptyFn
    /\ qi' = IF passError THEN Len(queue) + 1 ELSE qi + 1
    /\ finished' = finished + 1
    /\ UNCHANGED <<queue, queuedPaths>>
    /\ UNCHANGED <<rsVars, reqVars, cycleVars, processed, docVars, envVars>>

\* processFile has returned or thrown: its locals are gone and
\* processFilesSequentially goes on.
FinishFile ==
    /\ pc = "done"
    /\ pc' = "idle" /\ cur' = NoPath /\ scan' = <<>> /\ level' = 0
    /\ contentToTid' = EmptyFn /\ cmds' = <<>> /\ passError' = FALSE
    /\ resolved' = EmptyFn /\ missing' = EmptyFn
    /\ IF cyPc = "process"
       THEN /\ qi' = qi + 1
            /\ finished' = finished + 1
            /\ UNCHANGED <<queue, queuedPaths>>
       ELSE /\ queue' = <<>> /\ queuedPaths' = {} /\ qi' = 0
            /\ UNCHANGED finished
    /\ UNCHANGED <<rsVars, reqVars, cycleVars, processed, docVars, envVars>>

(***************************************************************************)
(* Creation specification: every outline of new task lines in document X,  *)
(* an empty store, processFile run on it.                                  *)
(***************************************************************************)
DefaultWindow == 60    \* DEFAULT_SETTINGS.conflictResolutionWindow
StartMs == 2 * SuppressionMs        \* Date.now() in the initial state
MaxIndent == 2

NewLineSet ==
    [indent : 0..MaxIndent, done : {FALSE}, text : Contents, prio : {0}, due : {""},
     dur : {0}, tid : {NoTid}]

InitCreate ==
    /\ ResolverUnused
    /\ files \in {[p \in Paths |-> IF p = "X" THEN ls ELSE <<>>] :
                     ls \in SeqsUpTo(NewLineSet, MaxLines)}
    /\ mtime = [p \in Paths |-> StartMs]
    /\ now = StartMs
    /\ db = EmptyFn
    /\ nextId = 1
    /\ window = DefaultWindow
    /\ PassIdle
    /\ edits = 0 /\ pulls = 0 /\ unscanned = {}
    /\ CycleUnused
    /\ RequestUnused

NextCreate ==
    \/ StartFile("X")
    \/ CreateLevel
    \/ WriteTids
    \/ Reconcile
    \/ ResolveAndApply
    \/ FinishFile

SpecCreate == InitCreate /\ [][NextCreate]_vars

(***************************************************************************)
(* Synchronisation specification: a synced vault (root task 1 "A" with     *)
(* child 2 "B" in document X, document Y empty), the user editing, the     *)
(* remote service reporting changes, the clock advancing, processFile run  *)
(* on either document.                                                     *)
(***************************************************************************)
MaxEdits == 2          \* user edits in one behaviour
MaxPulls == 1          \* pulled items in one behaviour
MaxTicks == 1          \* clock steps in one behaviour
TickMs == SuppressionMs + 1000      \* one clock step
TimeSet == {StartMs + TickMs * k : k \in 0..MaxTicks}
WindowChoices == {0, DefaultWindow}

SyncedLine(indent, text, tid) ==
    [indent |-> indent, done |-> FALSE, text |-> text, prio |-> 0, due |-> "",
     dur |-> 0, tid |-> tid]

SyncedRecord(path, text, parent) ==
    [filepath |-> path, content |-> text, completed |-> FALSE, due |-> "", prio |-> 0,
     dur |-> 0, parent_tid |-> parent, lastSyncedAt |-> StartMs, pending_changes |-> <<>>]

\* The items a pull can report for a known id (TodoistTask).
PullItems ==
    {[is_deleted |-> FALSE, content |-> "A", checked |-> TRUE, due |-> "",
      priority |-> 1, duration |-> 0],
     [is_deleted |-> FALSE, content |-> "B", checked |-> FALSE, due |-> "d1",
      priority |-> 4, duration |-> 30],
     [is_deleted |-> TRUE, content |-> "A", checked |-> FALSE, due |-> "",
      priority |-> 1, duration |-> 0]}

Init ==
    /\ ResolverUnused
    /\ files = [p \in Paths |-> IF p = "X"
                                THEN <<SyncedLine(0, "A", 1), SyncedLine(1, "B", 2)>>
                                ELSE <<>>]
    /\ mtime = [p \in Paths |-> StartMs]
    /\ now = StartMs
    /\ db = [t \in {1, 2} |-> IF t = 1 THEN SyncedRecord("X", "A", NoTid)
                                       ELSE SyncedRecord("X", "B", 1)]
    /\ nextId = 3
    /\ window \in WindowChoices
    /\ PassIdle
    /\ edits = 0 /\ pulls = 0 /\ unscanned = {}
    /\ CycleUnused
    /\ RequestUnused

\* The user can edit between two runs of processFile and while the create batches
\* are in flight; the creation reads the document again only in its write-back,
\* so every such edit is seen there first.
UserCanEdit == pc \in {"idle", "writeTids"} /\ edits < MaxEdits

UserWrites(path, lines) ==
    /\ files' = [files EXCEPT ![path] = lines]
    /\ mtime' = [mtime EXCEPT ![path] = now]
    /\ edits' = edits + 1
    /\ unscanned' = unscanned \cup {path}
    /\ UNCHANGED <<rsVars, reqVars, cycleVars, queueVars, now, db, nextId, window, passVars,
                   pulls>>

\* The user ticks or unticks a checkbox.
UserToggles(path, i) ==
    /\ UserCanEdit
    /\ i \in 1..Len(files[path])
    /\ UserWrites(path, [files[path] EXCEPT ![i] = [@ EXCEPT !.done = ~@]])

\* The user rewrites the text of a task.
UserRetitles(path, i, text) ==
    /\ UserCanEdit
    /\ i \in 1..Len(files[path])
    /\ files[path][i].text # text
    /\ UserWrites(path, [files[path] EXCEPT ![i] = [@ EXCEPT !.text = text]])

\* The user removes a line.
UserRemoves(path, i) ==
    /\ UserCanEdit
    /\ i \in 1..Len(files[path])
    /\ UserWrites(path, RemoveLines(files[path], {i}))

\* The user types a new task at the end of a document.
UserAdds(path, indent, text) ==
    /\ UserCanEdit
    /\ Len(files[path]) < MaxLines
    /\ UserWrites(path, Append(files[path], SyncedLine(indent, text, NoTid)))

\* The user cuts a line from one document and pastes it at the end of the other.
UserMoves(from, i, to) ==
    /\ UserCanEdit
    /\ from # to
    /\ i \in 1..Len(files[from])
    /\ Len(files[to]) < MaxLines
    /\ files' = [files EXCEPT ![from] = RemoveLines(files[from], {i}),
                              ![to] = Append(files[to], [files[from][i] EXCEPT !.indent = 0])]
    /\ mtime' = [mtime EXCEPT ![from] = now, ![to] = now]
    /\ edits' = edits + 1
    /\ unscanned' = unscanned \cup {from, to}
    /\ UNCHANGED <<rsVars, reqVars, cycleVars, queueVars, now, db, nextId, window, passVars,
                   pulls>>

\* pullFromTodoist, one reported item of a known id: a remote-origin pending change.
Pull(tid, item, ts) ==
    /\ pc = "idle"
    /\ pulls < MaxPulls
    /\ tid \in DOMAIN db
    /\ ts <= now
    /\ db' = [db EXCEPT ![tid] =
                 [@ EXCEPT !.pending_changes =
                     Append(@, IF item.is_deleted
                               THEN [source |-> "api", timestamp |-> ts,
                                     changes |-> DeletedChanges]
                               ELSE [source |-> "api", timestamp |-> ts,
                                     changes |-> apiChanges(item)])]]
    /\ pulls' = pulls + 1
    /\ UNCHANGED <<rsVars, reqVars, cycleVars, queueVars, files, mtime, now, nextId, window,
                   passVars, edits, unscanned>>

\* Time passes.
Tick ==
    /\ pc = "idle"
    /\ now + TickMs \in TimeSet
    /\ now' = now + TickMs
    /\ UNCHANGED <<rsVars, reqVars, cycleVars, queueVars, files, mtime, db, nextId, window,
                   passVars, envVars>>

Next ==
    \/ \E path \in Paths : StartFile(path)
    \/ CreateLevel
    \/ WriteTids
    \/ Reconcile
    \/ ResolveAndApply
    \/ FinishFile
    \/ \E path \in Paths, i \in 1..MaxLines : UserToggles(path, i)
    \/ \E path \in Paths, i \in 1..MaxLines, text \in Contents : UserRetitles(path, i, text)
    \/ \E path \in Paths, i \in 1..MaxLines : UserRemoves(path, i)
    \/ \E path \in Paths, indent \in 0..1, text \in Contents : UserAdds(path, indent, text)
    \/ \E from \in Paths, to \in Paths, i \in 1..MaxLines : UserMoves(from, i, to)
    \/ \E tid \in 1..MaxIds, item \in PullItems, ts \in TimeSet : Pull(tid, item, ts)
    \/ Tick

Spec == Init /\ [][Next]_vars

(***************************************************************************)
(* Recovery specification: the store was saved with a local change still   *)
(* pending.  reconcileFileTasks had recorded that task 2 sits under task 1 *)
(* and then threw in its vault search, so processFile ended before the     *)
(* resolution; since then the line of task 1 was moved to document Y and   *)
(* Y was processed, and task 2 stands at the root of X.                    *)
(***************************************************************************)
InitParent ==
    /\ ResolverUnused
    /\ files = [p \in Paths |-> IF p = "X" THEN <<SyncedLine(0, "B", 2)>>
                                           ELSE <<SyncedLine(0, "A", 1)>>]
    /\ mtime = [p \in Paths |-> StartMs]
    /\ now = StartMs
    /\ \E parent \in {NoTid, 1}, ts \in {StartMs - TickMs, StartMs} :
          db = [t \in {1, 2} |->
                   IF t = 1 THEN SyncedRecord("Y", "A", NoTid)
                   ELSE [SyncedRecord("X", "B", parent) EXCEPT
                            !.pending_changes =
                                <<[source |-> "local", timestamp |-> ts,
                                   changes |-> localChanges(
                                       parseTaskLine(SyncedLine(1, "B", 2)), 1)]>>]]
    /\ nextId = 3
    /\ window \in WindowChoices
    /\ PassIdle
    /\ edits = 0 /\ pulls = 0 /\ unscanned = {}
    /\ CycleUnused
    /\ RequestUnused

MaxParentEdits == 1    \* user edits in one behaviour of the recovery specification

\* The documents are processed, the user ticks checkboxes, items are pulled,
\* time passes; no new task lines are typed.
NextParent ==
    \/ \E path \in Paths : StartFile(path)
    \/ Reconcile
    \/ ResolveAndApply
    \/ FinishFile
    \/ \E path \in Paths, i \in 1..MaxLines :
          edits < MaxParentEdits /\ UserToggles(path, i)
    \/ \E tid \in 1..MaxIds, item \in PullItems, ts \in TimeSet : Pull(tid, item, ts)
    \/ Tick

SpecParent == InitParent /\ [][NextParent]_vars

(***************************************************************************)
(* The remote client: syncPull and the retry loop of todoistSyncRequest.   *)
(* Each action runs the code between two awaits (fetch, sleep).            *)
(***************************************************************************)
maxRetries == 3
InitialRetryDelay == 5000      \* let retryDelay = 5000
MaxRetryDelay == 60000         \* Math.min(retryDelay * 2, 60000)

Wildcard == "*"
Cursors == {"c1", Wildcard}

\* What one fetch can come back with: a good answer, HTTP 429, an answer whose error
\* names the sync token, another HTTP or API error, a rejected fetch.
Statuses == {"ok", "429", "invalidToken", "httpError", "networkError"}

\* The message of the error the attempt throws.
errorOf(status) ==
    CASE status = "429" -> "Rate limit exceeded, max retries reached"
      [] status = "invalidToken" -> "Todoist API error: Invalid sync token"
      [] status = "httpError" -> "Todoist API error (500)"
      [] OTHER -> "Failed to fetch"

\* error.message.includes('Invalid sync token')
isInvalidToken(message) == message = "Todoist API error: Invalid sync token"

\* The error thrown when the last attempt is answered with 429.
isRateLimitError(message) == message = "Rate limit exceeded, max retries reached"

\* Mutant of nextRetryDelay: the delay is not doubled.
nextRetryDelaySame(delay) == delay

\* retryDelay = Math.min(retryDelay * 2, 60000)
nextRetryDelay(delay) == IF delay * 2 < MaxRetryDelay THEN delay * 2 ELSE MaxRetryDelay

\* todoistSyncRequest is entered: its locals are fresh.
requestBegins(token) ==
    /\ requests' = Append(requests, token)
    /\ rqPc' = "fetch"
    /\ attempt' = 0
    /\ retryDelay' = InitialRetryDelay
    /\ waits' = <<>>

\* syncPull is called: the first request carries the stored cursor.
SyncPull(syncToken) ==
    /\ plPc = "idle"
    /\ plPc' = "first"
    /\ plCursor' = syncToken
    /\ plResult' = [full_sync |-> FALSE, error |-> "", response |-> 0]
    /\ fetches' = <<>>
    /\ requests' = <<syncToken>>
    /\ rqPc' = "fetch" /\ attempt' = 0 /\ retryDelay' = InitialRetryDelay /\ waits' = <<>>
    /\ UNCHANGED <<batchVars, auxVars, rsVars, docVars, passVars, envVars, cycleVars, queueVars>>

\* One pass through the try block: the fetch and what its answer leads to.  A 429
\* before the last attempt and any thrown error before the last attempt lead to the
\* sleep; on the last attempt the error is thrown to the caller.
Fetch(status, fullSync) ==
    /\ rqPc = "fetch"
    /\ status # "ok" => ~fullSync
    /\ fetches' = Append(fetches, [request |-> Len(requests),
                                   sync_token |-> requests[Len(requests)],
                                   status |-> status, full_sync |-> fullSync])
    /\ rqPc' = IF status = "ok" THEN "returned"
               ELSE IF attempt < maxRetries - 1 THEN "sleep"
               ELSE "threw"
    /\ UNCHANGED <<plPc, plCursor, plResult, requests, attempt, retryDelay, waits>>
    /\ UNCHANGED <<batchVars, auxVars, rsVars, docVars, passVars, envVars, cycleVars, queueVars>>

\* await sleep(retryDelay); the delay is doubled; the loop goes to the next attempt.
Sleep ==
    /\ rqPc = "sleep"
    /\ waits' = Append(waits, retryDelay)
    /\ retryDelay' = nextRetryDelay(retryDelay)
    /\ attempt' = attempt + 1
    /\ rqPc' = "fetch"
    /\ UNCHANGED <<plPc, plCursor, plResult, requests, fetches>>
    /\ UNCHANGED <<batchVars, auxVars, rsVars, docVars, passVars, envVars, cycleVars, queueVars>>

\* Mutant of RequestThrows: every error of the first request leads to the fallback.
RequestThrowsAlwaysFallback ==
    /\ rqPc = "threw"
    /\ IF plPc = "first"
       THEN /\ plPc' = "fallback"
            /\ requestBegins(Wildcard)
            /\ UNCHANGED plResult
       ELSE /\ plPc' = "done"
            /\ plResult' = [full_sync |-> FALSE,
                            error |-> errorOf(fetches[Len(fetches)].status),
                            response |-> 0]
            /\ rqPc' = "idle"
            /\ UNCHANGED <<requests, attempt, retryDelay, waits>>
    /\ UNCHANGED <<plCursor, fetches>>
    /\ UNCHANGED <<batchVars, auxVars, rsVars, docVars, passVars, envVars, cycleVars, queueVars>>

\* The request threw into syncPull: the catch of the first request starts the
\* fallback request when the message names the sync token; every other error, and
\* every error of the fallback request, is thrown to the caller of syncPull.
RequestThrows ==
    /\ rqPc = "threw"
    /\ IF plPc = "first" /\ isInvalidToken(errorOf(fetches[Len(fetches)].status))
       THEN /\ plPc' = "fallback"
            /\ requestBegins(Wildcard)
            /\ UNCHANGED plResult
       ELSE /\ plPc' = "done"
            /\ plResult' = [full_sync |-> FALSE,
                            error |-> errorOf(fetches[Len(fetches)].status),
                            response |-> 0]
            /\ rqPc' = "idle"
            /\ UNCHANGED <<requests, attempt, retryDelay, waits>>
    /\ UNCHANGED <<plCursor, fetches>>
    /\ UNCHANGED <<batchVars, auxVars, rsVars, docVars, passVars, envVars, cycleVars, queueVars>>

\* The request returned data: syncPull returns it, full_sync as answered for the
\* first request and true for the fallback request.
RequestReturns ==
    /\ rqPc = "returned"
    /\ plPc' = "done"
    /\ plResult' = [full_sync |-> IF plPc = "fallback" THEN TRUE
                                  ELSE fetches[Len(fetches)].full_sync,
                    error |-> "",
                    response |-> Len(fetches)]
    /\ rqPc' = "idle"
    /\ UNCHANGED <<plCursor, requests, attempt, retryDelay, waits, fetches>>
    /\ UNCHANGED <<batchVars, auxVars, rsVars, docVars, passVars, envVars, cycleVars, queueVars>>

\* The caller has taken the outcome of syncPull.
SyncPullDone ==
    /\ plPc = "done"
    /\ plPc' = "idle"
    /\ UNCHANGED <<plCursor, plResult, requests, rqPc, attempt, retryDelay, waits, fetches>>
    /\ UNCHANGED <<batchVars, auxVars, rsVars, docVars, passVars, envVars, cycleVars, queueVars>>

InitRequest == ResolverUnused /\ EngineUnused

NextRequest ==
    \/ \E syncToken \in Cursors : SyncPull(syncToken)
    \/ \E status \in Statuses, fullSync \in BOOLEAN : Fetch(status, fullSync)
    \/ Sleep
    \/ RequestThrows
    \/ RequestReturns
    \/ SyncPullDone

SpecRequest == InitRequest /\ [][NextRequest]_vars

\* Every fetch and every sleep comes back.
SpecRequestFair == SpecRequest /\ WF_vars(NextRequest)

(***************************************************************************)
(* The batch functions and their callers.  A caller hands the whole list   *)
(* it collected for one operation of one document to the batch function    *)
(* in one call; only the length of the list matters here.                  *)
(***************************************************************************)
BatchLimit == 100      \* if (tasks.length > 100) throw
MaxItems == 102        \* longest list a document yields for one operation

BatchOps == {"create", "update", "delete"}

\* syncBatchCreate, syncBatchUpdate, syncBatchDelete on a list of n items: the
\* lengths of the command lists handed to todoistSyncRequest, and whether the
\* function threw before sending.
syncBatch(n) ==
    IF n = 0 \/ n > BatchLimit
    THEN [sent |-> <<>>, threw |-> TRUE]
    ELSE [sent |-> <<n>>, threw |-> FALSE]

\* The caller has collected n > 0 items for one operation (levelTasks of one depth,
\* apiUpdates, apiDeletions): 'if (list.length > 0)' guards every call.
BatchBegins(op, n) ==
    /\ batchPc = "idle"
    /\ n > 0
    /\ batchOp' = op
    /\ batchItems' = n
    /\ batchCalls' = <<>>
    /\ batchError' = FALSE
    /\ batchPc' = "call"
    /\ UNCHANGED <<plPc, plCursor, plResult, requests, rqPc, attempt, retryDelay, waits,
                   fetches, auxVars>>
    /\ UNCHANGED <<rsVars, docVars, passVars, envVars, cycleVars, queueVars>>

\* The one call the caller makes: await syncBatchX(token, list).  The request it
\* sends may fail as well.
BatchCall ==
    /\ batchPc = "call"
    /\ batchCalls' = batchCalls \o syncBatch(batchItems).sent
    /\ \E ok \in BOOLEAN :
          batchError' = (syncBatch(batchItems).threw \/ ~ok)
    /\ batchPc' = "done"
    /\ UNCHANGED <<batchOp, batchItems>>
    /\ UNCHANGED <<plPc, plCursor, plResult, requests, rqPc, attempt, retryDelay, waits,
                   fetches, auxVars>>
    /\ UNCHANGED <<rsVars, docVars, passVars, envVars, cycleVars, queueVars>>

\* The caller goes on (update, delete: the error is logged) or rethrows (create).
BatchEnds ==
    /\ batchPc = "done"
    /\ batchPc' = "idle"
    /\ UNCHANGED <<batchOp, batchItems, batchCalls, batchError>>
    /\ UNCHANGED <<plPc, plCursor, plResult, requests, rqPc, attempt, retryDelay, waits,
                   fetches, auxVars>>
    /\ UNCHANGED <<rsVars, docVars, passVars, envVars, cycleVars, queueVars>>

InitBatch == ResolverUnused /\ EngineUnused

NextBatch ==
    \/ \E op \in BatchOps, n \in 1..MaxItems : BatchBegins(op, n)
    \/ BatchCall
    \/ BatchEnds

SpecBatch == InitBatch /\ [][NextBatch]_vars

(***************************************************************************)
(* Cycle specification: the same synced vault, the plugin asked for sync   *)
(* cycles (scheduled ones skip the active document), runSync pulling,      *)
(* selecting documents, processing them one after the other and saving,    *)
(* while the user edits and the clock advances.                            *)
(***************************************************************************)
MaxCycles == 2         \* cycles begun in one behaviour
MaxRejected == 1       \* requests made while a cycle runs
MaxCycleEdits == 1     \* user edits in one behaviour of the cycle specification

\* The ids the remote service may report: those it handed out and one of a task
\* that was never created from the vault.
RemoteIds == 1..(MaxIds + 1)

\* Array.from(new Set(s)): first occurrences, in order.
RECURSIVE Dedupe(_)
Dedupe(s) ==
    IF s = <<>> THEN <<>>
    ELSE LET r == Dedupe(SubSeq(s, 1, Len(s) - 1))
         IN  IF \E k \in 1..Len(r) : r[k] = s[Len(s)] THEN r ELSE Append(r, s[Len(s)])

\* getModifiedFiles: sync-enabled, not the skipped active document, mtime > lastSync.
getModifiedFiles(mt, en, ls, active) ==
    SelectSeq(PathOrder, LAMBDA p : /\ p \in en
                                    /\ ~(active # NoPath /\ p = active)
                                    /\ mt[p] > ls)

\* Mutant of getFilesWithPendingChanges: step 2.5 of runSync finds nothing.
getFilesWithPendingChangesNone(dbx) == <<>>

\* getFilesWithPendingChanges: the documents of the records with pending changes.
getFilesWithPendingChanges(dbx) ==
    LET tids == SortedSeq({t \in DOMAIN dbx : dbx[t].pending_changes # <<>>})
    IN  Dedupe([k \in 1..Len(tids) |-> dbx[tids[k]].filepath])

\* pullFromTodoist, the loop body for an item whose id the store knows.
pushApiChange(dbx, tid, item, ts) ==
    [dbx EXCEPT ![tid] =
        [@ EXCEPT !.pending_changes =
            Append(@, IF item.is_deleted
                      THEN [source |-> "api", timestamp |-> ts, changes |-> DeletedChanges]
                      ELSE [source |-> "api", timestamp |-> ts,
                            changes |-> apiChanges(item)])]]

\* Mutant of pullItem: the reported values are written to the record at once.
pullItemApplied(dbx, tid, item, ts) ==
    IF tid \notin DOMAIN dbx THEN dbx
    ELSE IF item.is_deleted THEN [t \in DOMAIN dbx \ {tid} |-> dbx[t]]
    ELSE [dbx EXCEPT ![tid] = [@ EXCEPT !.content = item.content,
                                        !.completed = item.checked,
                                        !.due = item.due,
                                        !.prio = item.priority,
                                        !.dur = item.duration]]

\* pullFromTodoist, the loop body: an item whose id the store does not know is
\* skipped (with a warning when it carries the sync tag).
pullItem(dbx, tid, item, ts) ==
    IF tid \in DOMAIN dbx THEN pushApiChange(dbx, tid, item, ts) ELSE dbx

\* runSync up to the await of the pull: the modified documents are listed.
runSyncBegins(skipActiveFile, active) ==
    /\ activeFilePath' = IF skipActiveFile THEN active ELSE NoPath
    /\ modifiedFiles' = getModifiedFiles(mtime, enabled, lastSync,
                                         IF skipActiveFile THEN active ELSE NoPath)
    /\ cyPc' = "pull"
    /\ cycles' = cycles + 1
    /\ activeCycles' = activeCycles + 1
    /\ saves' = 0
    /\ cycleError' = NoError
    /\ startedAt' = [lastSync |-> lastSync, mtime |-> mtime]
    /\ pendingAfterPull' = {}
    /\ queue' = <<>> /\ queuedPaths' = {} /\ qi' = 0
    /\ processed' = <<>> /\ finished' = 0
    /\ UNCHANGED <<lastSync, enabled, rejected>>

\* Mutant of RequestSync: the in-progress flag is not consulted.
RequestSyncUnguarded(skipActiveFile, active) ==
    /\ cycles < MaxCycles
    /\ syncing' = TRUE
    /\ runSyncBegins(skipActiveFile, active)
    /\ UNCHANGED <<rsVars, reqVars, docVars, passVars, envVars>>

\* A scheduled or manual request for a cycle: a no-op while one is running.
RequestSync(skipActiveFile, active) ==
    /\ IF syncing
       THEN /\ rejected < MaxRejected
            /\ rejected' = rejected + 1
            /\ UNCHANGED <<syncing, cyPc, activeFilePath, modifiedFiles, lastSync, enabled,
                           cycles, activeCycles, saves, cycleError, startedAt,
                           pendingAfterPull, queueVars>>
       ELSE /\ cycles < MaxCycles
            /\ syncing' = TRUE
            /\ runSyncBegins(skipActiveFile, active)
    /\ UNCHANGED <<rsVars, reqVars, docVars, passVars, envVars>>

\* The selection of runSync after a pull that left the store as dbx.
selectFiles(dbx) ==
    /\ pendingAfterPull' = {dbx[t].filepath : t \in {u \in DOMAIN dbx :
                                                       dbx[u].pending_changes # <<>>}}
    /\ queue' = Dedupe(modifiedFiles \o getFilesWithPendingChanges(dbx))
    /\ queuedPaths' = {p \in Paths :
                         \E k \in 1..Len(modifiedFiles \o getFilesWithPendingChanges(dbx)) :
                             (modifiedFiles \o getFilesWithPendingChanges(dbx))[k] = p}
    /\ qi' = 1
    /\ cyPc' = "process"
    /\ UNCHANGED cycleError

\* pullFromTodoist and the selection that follows it.  The pull throws, or reports
\* nothing, or reports one item of a known id.
PullFromTodoist ==
    /\ cyPc = "pull"
    /\ \/ /\ cyPc' = "returned"
          /\ cycleError' = "pull"
          /\ pulled' = <<>>
          /\ UNCHANGED <<db, pulls, pendingAfterPull, queue, queuedPaths, qi>>
       \/ /\ selectFiles(db)
          /\ pulled' = <<>>
          /\ UNCHANGED <<db, pulls>>
       \/ /\ pulls < MaxPulls
          /\ \E tid \in RemoteIds, item \in PullItems, ts \in TimeSet :
                /\ ts <= now
                /\ db' = pullItem(db, tid, item, ts)
                /\ selectFiles(pullItem(db, tid, item, ts))
                /\ pulled' = <<[id |-> tid, item |-> item, updated_at |-> ts]>>
          /\ pulls' = pulls + 1
    /\ UNCHANGED <<rsVars, plPc, plCursor, plResult, requests, rqPc, attempt, retryDelay,
                   waits, fetches, batchVars, labelVars, wbVars, persistVars, files, mtime, now, nextId, window, passVars, edits,
                   unscanned,
                   syncing, activeFilePath, modifiedFiles, lastSync, enabled, cycles,
                   activeCycles, rejected, saves, startedAt, processed, finished>>

\* processFilesSequentially, the loop head: files[i] is handed to processFile.
ProcessNextFile ==
    /\ cyPc = "process"
    /\ qi <= Len(queue)
    /\ StartFile(queue[qi])

\* Mutant of SaveDatabase: lastSync is set to the time the cycle began with.
SaveDatabaseStale ==
    /\ cyPc = "process"
    /\ pc = "idle"
    /\ qi > Len(queue)
    /\ lastSync' = startedAt.lastSync
    /\ \E ok \in BOOLEAN :
          /\ saves' = IF ok THEN saves + 1 ELSE saves
          /\ cycleError' = IF ok THEN NoError ELSE "save"
    /\ cyPc' = "returned"
    /\ UNCHANGED <<rsVars, reqVars, docVars, passVars, envVars, queueVars,
                   syncing, activeFilePath, modifiedFiles, enabled, cycles,
                   activeCycles, rejected, startedAt, pendingAfterPull>>

\* Mutant of SaveDatabase: the store is saved between two documents of the loop.
SaveDatabaseEarly ==
    /\ cyPc = "process"
    /\ pc = "idle"
    /\ lastSync' = now
    /\ saves' = saves + 1
    /\ cycleError' = NoError
    /\ cyPc' = IF qi > Len(queue) THEN "returned" ELSE "process"
    /\ UNCHANGED <<rsVars, reqVars, docVars, passVars, envVars, queueVars,
                   syncing, activeFilePath, modifiedFiles, enabled, cycles,
                   activeCycles, rejected, startedAt, pendingAfterPull>>

\* The loop is over: settings.lastSync = Date.now(), then saveDatabase.
SaveDatabase ==
    /\ cyPc = "process"
    /\ pc = "idle"
    /\ qi > Len(queue)
    /\ lastSync' = now
    /\ \E ok \in BOOLEAN :
          /\ saves' = IF ok THEN saves + 1 ELSE saves
          /\ cycleError' = IF ok THEN NoError ELSE "save"
    /\ cyPc' = "returned"
    /\ UNCHANGED <<rsVars, reqVars, docVars, passVars, envVars, queueVars,
                   syncing, activeFilePath, modifiedFiles, enabled, cycles,
                   activeCycles, rejected, startedAt, pendingAfterPull>>

\* runSync has returned or thrown: the plugin clears the in-progress flag.
CycleReturns ==
    /\ cyPc = "returned"
    /\ syncing' = FALSE
    /\ activeCycles' = activeCycles - 1
    /\ cyPc' = "idle"
    /\ UNCHANGED <<rsVars, reqVars, docVars, passVars, envVars, queueVars,
                   activeFilePath, modifiedFiles, lastSync, enabled, cycles,
                   rejected, saves, cycleError, startedAt, pendingAfterPull>>

EnabledChoices == {Paths, {"X"}}

InitCycle ==
    /\ ResolverUnused
    /\ files = [p \in Paths |-> IF p = "X"
                                THEN <<SyncedLine(0, "A", 1), SyncedLine(1, "B", 2)>>
                                ELSE <<>>]
    /\ mtime = [p \in Paths |-> StartMs]
    /\ now = StartMs
    /\ db = [t \in {1, 2} |-> IF t = 1 THEN SyncedRecord("X", "A", NoTid)
                                       ELSE SyncedRecord("X", "B", 1)]
    /\ nextId = 3
    /\ window = DefaultWindow
    /\ PassIdle
    /\ edits = 0 /\ pulls = 0 /\ unscanned = {}
    /\ syncing = FALSE /\ cyPc = "idle" /\ activeFilePath = NoPath
    /\ modifiedFiles = <<>> /\ lastSync = StartMs /\ enabled \in EnabledChoices
    /\ cycles = 0 /\ activeCycles = 0 /\ rejected = 0 /\ saves = 0
    /\ cycleError = NoError
    /\ startedAt = [lastSync |-> StartMs, mtime |-> [p \in Paths |-> StartMs]]
    /\ pendingAfterPull = {}
    /\ queue = <<>> /\ queuedPaths = {} /\ qi = 0 /\ processed = <<>> /\ finished = 0
    /\ RequestUnused

NextCycle ==
    \/ \E skipActiveFile \in BOOLEAN, active \in Paths : RequestSync(skipActiveFile, active)
    \/ PullFromTodoist
    \/ ProcessNextFile
    \/ CreateLevel
    \/ WriteTids
    \/ Reconcile
    \/ ResolveAndApply
    \/ FinishFile
    \/ SaveDatabase
    \/ CycleReturns
    \/ \E path \in Paths, i \in 1..MaxLines :
          edits < MaxCycleEdits /\ UserToggles(path, i)
    \/ \E path \in Paths, indent \in 0..1, text \in Contents :
          edits < MaxCycleEdits /\ UserAdds(path, indent, text)
    \/ \E from \in Paths, to \in Paths, i \in 1..MaxLines :
          edits < MaxCycleEdits /\ UserMoves(from, i, to)
    \/ Tick

SpecCycle == InitCycle /\ [][NextCycle]_vars

(***************************************************************************)
(* Properties of the conflict resolver (checked under SpecResolve).        *)
(***************************************************************************)
MaxOf(S) == CHOOSE x \in S : \A y \in S : y <= x
OriginIdx(pending, src) == {i \in 1..Len(pending) : pending[i].source = src}
OriginLatestTs(pending, src) == MaxOf({pending[i].timestamp : i \in OriginIdx(pending, src)})
\* res is a change of origin src carrying that origin's maximum timestamp
IsLatestOf(res, pending, src) ==
    /\ res.source = src
    /\ \E i \in OriginIdx(pending, src) :
          /\ pending[i].timestamp = OriginLatestTs(pending, src)
          /\ pending[i].changes = res.changes
BothOrigins(pending) == OriginIdx(pending, "api") # {} /\ OriginIdx(pending, "local") # {}
LatestGapMs(pending) == Abs(OriginLatestTs(pending, "local") - OriginLatestTs(pending, "api"))

\* C3: both origins pending and the two latest timestamps at most |window| seconds
\* apart: the remote origin's latest change is returned when window > 0, the local
\* origin's latest change when window <= 0, whichever timestamp is newer.
C3_WithinWindowSignDecides ==
    (rsDone /\ BothOrigins(rsPending) /\ LatestGapMs(rsPending) <= 1000 * Abs(rsWindow))
        => IF rsWindow > 0 THEN IsLatestOf(rsResult, rsPending, "api")
                           ELSE IsLatestOf(rsResult, rsPending, "local")

\* Witness of C3: inside a positive window the remote change wins although the
\* local change is strictly newer.
C3_Witness ==
    /\ rsDone /\ BothOrigins(rsPending) /\ rsWindow > 0
    /\ LatestGapMs(rsPending) <= 1000 * Abs(rsWindow)
    /\ OriginLatestTs(rsPending, "local") > OriginLatestTs(rsPending, "api")
    /\ rsResult.source = "api"

\* C4: both origins pending and the two latest timestamps more than |window| seconds
\* apart: the latest change of the origin with the strictly greater timestamp is
\* returned, for every sign of the window.
C4_OutsideWindowNewestWins ==
    (rsDone /\ BothOrigins(rsPending) /\ LatestGapMs(rsPending) > 1000 * Abs(rsWindow))
        => IF OriginLatestTs(rsPending, "local") > OriginLatestTs(rsPending, "api")
           THEN IsLatestOf(rsResult, rsPending, "local")
           ELSE IsLatestOf(rsResult, rsPending, "api")

\* Witness of C4: outside a positive window the newer local change wins.
C4_Witness ==
    /\ rsDone /\ BothOrigins(rsPending) /\ rsWindow > 0
    /\ LatestGapMs(rsPending) > 1000 * Abs(rsWindow)
    /\ OriginLatestTs(rsPending, "local") > OriginLatestTs(rsPending, "api")
    /\ rsResult.source = "local"

\* C5: exactly one pending change: exactly that change (origin and changeset) is
\* returned, for every window and timestamp.
C5_SingleChangeWins ==
    (rsDone /\ Len(rsPending) = 1)
        => rsResult = [source |-> rsPending[1].source, changes |-> rsPending[1].changes]

\* Witness of C5: a single local change is returned under a positive window.
C5_Witness ==
    /\ rsDone /\ Len(rsPending) = 1 /\ rsWindow > 0
    /\ rsPending[1].source = "local" /\ rsResult.source = "local"

\* C6: two or more pending changes, all of one origin: a change of that origin
\* with the maximum timestamp of the list is returned, whatever the window and the
\* order of the list.
C6_SameOriginLatestWins ==
    \A src \in Sources :
        (rsDone /\ Len(rsPending) >= 2 /\ OriginIdx(rsPending, src) = 1..Len(rsPending))
            => IsLatestOf(rsResult, rsPending, src)

\* Witness of C6: three local changes whose newest is in the middle of the list.
C6_Witness ==
    /\ rsDone /\ Len(rsPending) = 3
    /\ OriginIdx(rsPending, "local") = {1, 2, 3}
    /\ rsPending[2].timestamp > rsPending[3].timestamp
    /\ rsPending[3].timestamp > rsPending[1].timestamp
    /\ rsResult.changes = rsPending[2].changes
    /\ rsPending[2].changes # rsPending[1].changes /\ rsPending[2].changes # rsPending[3].changes

(***************************************************************************)
(* Properties of the creation protocol, checked under SpecCreate.          *)
(***************************************************************************)
ScanLines == [i \in 1..Len(scan) |-> scan[i].line]

\* Line c of the scanned document is a new task whose outline parent p is a new task.
NewChildOfNew(p, c) ==
    /\ p \in 1..Len(scan) /\ c \in 1..Len(scan)
    /\ scan[c].tid = NoTid
    /\ ParentLine(ScanLines, c) = p
    /\ scan[p].tid = NoTid

\* Every level of the running processFile has been created.
AllLevelsCreated == pc = "writeTids"

\* C8: once all create batches have returned, every new task whose parent is
\* another new task of the document was created in a later batch and at a
\* strictly greater depth than its parent, and its create command carries the id
\* the remote service returned for the parent.
C8_ParentCreatedFirst ==
    AllLevelsCreated =>
        \A p, c \in 1..Len(scan) :
            NewChildOfNew(p, c) =>
                \E bp, bc \in 1..Len(cmds) :
                    \E ip \in 1..Len(cmds[bp].commands), ic \in 1..Len(cmds[bc].commands) :
                        /\ cmds[bp].commands[ip].lineNum = p
                        /\ cmds[bc].commands[ic].lineNum = c
                        /\ cmds[bp].level < cmds[bc].level
                        /\ bp < bc
                        /\ cmds[bc].commands[ic].parent_id = cmds[bp].ids[ip]

C8_Witness ==
    /\ AllLevelsCreated
    /\ \E p, c \in 1..Len(scan) : NewChildOfNew(p, c)

\* The scanned document has pairwise distinct task texts.
DistinctTexts ==
    \A i, j \in 1..Len(scan) :
        parseTaskContent(scan[i].line) = parseTaskContent(scan[j].line) => i = j

\* processFile ran to its end without throwing.
PassCompleted == pc = "done" /\ ~passError

\* C9: after a creation pass over a new root task and a new child under it,
\* both lines carry distinct ids, both ids have a record, and the child's record
\* has the root's id as its parent.
C9_ChildRecordPointsAtParent ==
    (PassCompleted /\ DistinctTexts) =>
        \A p, c \in 1..Len(scan) :
            (NewChildOfNew(p, c) /\ ParentLine(ScanLines, p) = 0) =>
                /\ extractTID(files[cur][p]) # NoTid
                /\ extractTID(files[cur][c]) # NoTid
                /\ extractTID(files[cur][p]) # extractTID(files[cur][c])
                /\ extractTID(files[cur][p]) \in DOMAIN db
                /\ extractTID(files[cur][c]) \in DOMAIN db
                /\ db[extractTID(files[cur][c])].parent_tid = extractTID(files[cur][p])

C9_Witness ==
    /\ PassCompleted /\ DistinctTexts
    /\ \E p, c \in 1..Len(scan) :
          /\ NewChildOfNew(p, c) /\ ParentLine(ScanLines, p) = 0
          /\ extractTID(files[cur][c]) \in DOMAIN db
          /\ extractTID(files[cur][p]) \in DOMAIN db

(***************************************************************************)
(* Properties of one processFile run, checked under Spec.                  *)
(***************************************************************************)
\* The parsed line and the changes agree on content, completed, due date,
\* priority and duration.
LineShows(line, ch) ==
    /\ parseTaskLine(line).content = ch.content
    /\ parseTaskLine(line).completed = ch.completed
    /\ parseTaskLine(line).due = ch.due
    /\ parseTaskLine(line).prio = ch.prio
    /\ parseTaskLine(line).dur = ch.dur

\* The parsed line and the record agree on the same fields.
LineAgreesWithRecord(line, task) ==
    /\ parseTaskLine(line).content = task.content
    /\ parseTaskLine(line).completed = task.completed
    /\ parseTaskLine(line).due = task.due
    /\ parseTaskLine(line).prio = task.prio
    /\ parseTaskLine(line).dur = task.dur

\* The last resolution loop let a remote-origin change without deleted flag win
\* for record t, and the document has a line with that id.
RemoteWonWithLine(t) ==
    /\ t \in DOMAIN resolved
    /\ resolved[t].source = "api"
    /\ ~resolved[t].changes.deleted
    /\ tidToLineNum(files[cur], t) # 0

\* C1: after the write-back of a run in which a remote-origin change without
\* deleted flag won for a record whose line is in the document, the line with
\* that id parses to the winning values (content, completed, due date, priority,
\* duration) and agrees with the record on these fields.
C1_LineShowsRemoteWinner ==
    PassCompleted =>
        \A t \in DOMAIN resolved :
            RemoteWonWithLine(t) =>
                /\ LineShows(files[cur][tidToLineNum(files[cur], t)], resolved[t].changes)
                /\ t \in DOMAIN db
                /\ LineAgreesWithRecord(files[cur][tidToLineNum(files[cur], t)], db[t])

C1_Witness ==
    /\ PassCompleted
    /\ \E t \in DOMAIN resolved :
          /\ RemoteWonWithLine(t)
          /\ LineShows(files[cur][tidToLineNum(files[cur], t)], resolved[t].changes)

\* The update or move batch that carried record t's local change failed.
PushFailed(t) ==
    \E k \in 1..Len(cmds) :
        /\ cmds[k].type \in {"update", "move"}
        /\ ~cmds[k].ok
        /\ \E i \in 1..Len(cmds[k].commands) : cmds[k].commands[i].id = t

\* The record's fields are those of the changes.
RecordAdvancedTo(task, ch) ==
    /\ task.content = ch.content
    /\ task.completed = ch.completed
    /\ task.due = ch.due
    /\ task.prio = ch.prio
    /\ task.dur = ch.dur
    /\ (ch.hasParent => task.parent_tid \in {ch.parent_tid, NoTid})

\* C2: when a local-origin change won and the remote update (or move) batch
\* carrying it failed, the store still records the divergence after the run: the
\* record keeps a pending change or its fields are not advanced to the local values.
C2_FailedPushKeepsDivergence ==
    PassCompleted =>
        \A t \in DOMAIN resolved :
            (resolved[t].source = "local" /\ ~resolved[t].changes.deleted /\ PushFailed(t)) =>
                /\ t \in DOMAIN db
                /\ \/ db[t].pending_changes # <<>>
                   \/ ~RecordAdvancedTo(db[t], resolved[t].changes)

C2_Witness ==
    /\ PassCompleted
    /\ \E t \in DOMAIN resolved :
          resolved[t].source = "local" /\ ~resolved[t].changes.deleted /\ PushFailed(t)

\* C7: after the resolve-and-apply step of a document, every record the document
\* owns has no pending change, resolving it again returns none, and a second
\* resolve-and-apply step sends no remote command and changes neither the
\* document nor the store.
C7_SecondResolveIsNoOp ==
    PassCompleted =>
        /\ \A t \in DOMAIN db :
              db[t].filepath = cur =>
                  /\ db[t].pending_changes = <<>>
                  /\ resolveConflicts(db[t].pending_changes, window) = NoResolution
        /\ \A r \in {resolveAndApplyUpdates(cur, files[cur], db, now, window)} :
              /\ r.apiUpdates = <<>>
              /\ r.apiMoves = <<>>
              /\ r.apiDeletions = <<>>
              /\ r.lines = files[cur]
              /\ r.db = db

C7_Witness ==
    /\ PassCompleted
    /\ \E t \in DOMAIN resolved : t \in DOMAIN db /\ db[t].filepath = cur

\* Reconciliation found record t's id in no document while no remote-origin
\* change was pending for it.
VanishedLocally(t) == t \in DOMAIN missing /\ ~missing[t]

LocalDeletions(pending) ==
    SelectSeq(pending, LAMBDA c : c.source = "local" /\ c.changes.deleted)

\* C10: when reconciliation finds a record's id in no document and the record
\* has no remote-origin pending change, exactly one local-origin deletion is
\* pending for it before resolution and wins it, and after the run a remote
\* delete for the id has been sent and the record is gone from the store.
C10_VanishedLineDeletesRemote ==
    /\ pc = "resolve" =>
          \A t \in DOMAIN missing :
              VanishedLocally(t) =>
                  /\ t \in DOMAIN db
                  /\ Len(LocalDeletions(db[t].pending_changes)) = 1
                  /\ resolveConflicts(db[t].pending_changes, window)
                         = [source |-> "local", changes |-> DeletedChanges]
    /\ PassCompleted =>
          \A t \in DOMAIN missing :
              VanishedLocally(t) =>
                  /\ t \notin DOMAIN db
                  /\ t \in DOMAIN resolved
                  /\ resolved[t] = [source |-> "local", changes |-> DeletedChanges]
                  /\ \E k \in 1..Len(cmds) :
                        /\ cmds[k].type = "delete"
                        /\ \E i \in 1..Len(cmds[k].commands) : cmds[k].commands[i] = t

C10_Witness ==
    /\ PassCompleted
    /\ \E t \in DOMAIN missing : VanishedLocally(t) /\ t \notin DOMAIN db

(***************************************************************************)
(* Properties of the cycle (checked under SpecCycle).                      *)
(***************************************************************************)
HoldsId(path, t) == \E i \in 1..Len(files[path]) : extractTID(files[path][i]) = t

InQueue(q, path) == \E k \in 1..Len(q) : q[k] = path

\* The reconciliation about to run will not see record t's id in its document,
\* while another sync-enabled document holds it.
MovedAway(t) ==
    /\ pc = "reconcile"
    /\ db[t].filepath = cur
    /\ \A i \in 1..Len(scan) : scan[i].tid # t
    /\ \E other \in enabled \ {cur} : HoldsId(other, t)

\* The document was put on the queue by move detection, not by the selection.
AppendedByMove(path) ==
    /\ InQueue(queue, path)
    /\ ~InQueue(modifiedFiles, path)
    /\ path \notin pendingAfterPull

SelectionProcessed ==
    \/ cyPc = "process" /\ pc = "idle" /\ qi > Len(queue)
    \/ cyPc = "returned" /\ cycleError # "pull"

\* The document was sync-enabled and modified after lastSync when the cycle began.
ModifiedAtStart(p) == p \in enabled /\ startedAt.mtime[p] > startedAt.lastSync

\* C13 as stated: the documents processed in a cycle contain every sync-enabled
\* document modified after the last cycle's timestamp and every document owning
\* a record with pending changes after the pull.
C13_SelectionAsStated ==
    SelectionProcessed =>
        /\ \A p \in Paths : ModifiedAtStart(p) => InQueue(processed, p)
        /\ \A p \in pendingAfterPull : InQueue(processed, p)

\* C13, amended: the documents processed in a cycle contain every document
\* owning a record with pending changes after the pull, and every sync-enabled
\* document modified after the last cycle's timestamp other than the active
\* document of a cycle that was asked to skip it (a scheduled cycle).
C13_Selection ==
    SelectionProcessed =>
        /\ \A p \in Paths :
              (ModifiedAtStart(p) /\ p # activeFilePath) => InQueue(processed, p)
        /\ \A p \in pendingAfterPull : InQueue(processed, p)

\* A cycle that skipped nothing has processed a modified document and an
\* unmodified one that owns a record with a pending change.
C13_Witness ==
    /\ cyPc = "returned" /\ cycleError = NoError
    /\ activeFilePath = NoPath
    /\ \E p, q \in Paths :
          /\ ModifiedAtStart(p) /\ p \notin pendingAfterPull
          /\ q \in pendingAfterPull /\ ~ModifiedAtStart(q)
          /\ InQueue(processed, p) /\ InQueue(processed, q)

C15_MutualExclusion ==
    /\ [](activeCycles <= 1)
    /\ [](syncing = (activeCycles = 1))
    /\ [](cyPc # "idle" => syncing)
    /\ [][cycles' # cycles =>
            /\ ~syncing /\ cyPc = "idle" /\ pc = "idle"
            /\ activeCycles = 0]_vars
    /\ [][rejected' # rejected =>
            /\ syncing
            /\ UNCHANGED <<rsVars, reqVars, docVars, passVars, envVars, queueVars,
                           syncing, cyPc, activeFilePath, modifiedFiles, lastSync,
                           enabled, cycles, activeCycles, saves, cycleError,
                           startedAt, pendingAfterPull>>]_vars

\* A request was rejected while the running cycle is suspended inside the
\* processing of a document.
C15_Witness ==
    /\ rejected = 1
    /\ syncing /\ activeCycles = 1
    /\ cyPc = "process" /\ pc = "resolve"
    /\ cycles = 1

\* C16: a cycle persists the store at most once, and only when the loop over
\* the documents is over: every selected document and every document appended
\* to the queue has been processed and has returned.  A cycle whose pull failed
\* has processed no document, has persisted nothing, has left the last-cycle
\* timestamp, the store and the documents as they were, and ends with the error.
C16_PersistOnceAtEnd ==
    /\ [](saves <= 1)
    /\ [][saves' > saves =>
            /\ cyPc = "process" /\ cyPc' = "returned" /\ pc = "idle"
            /\ processed = queue /\ finished = Len(queue)
            /\ \A p \in queuedPaths \cup pendingAfterPull : InQueue(processed, p)
            /\ \A k \in 1..Len(modifiedFiles) : InQueue(processed, modifiedFiles[k])]_vars
    /\ [](cycleError = "pull" =>
            /\ cyPc \in {"returned", "idle"}
            /\ processed = <<>> /\ saves = 0
            /\ lastSync = startedAt.lastSync)
    /\ [][(cyPc = "pull" /\ cycleError' = "pull") =>
            /\ cyPc' = "returned"
            /\ UNCHANGED <<db, files, mtime, lastSync, saves, processed>>]_vars

\* The second cycle's pull failed: the document modified after the first
\* cycle's timestamp is unprocessed and the timestamp is the first cycle's.
C16_Witness ==
    /\ cycles = 2
    /\ cyPc = "returned" /\ cycleError = "pull"
    /\ \E p \in enabled : mtime[p] > lastSync
    /\ processed = <<>> /\ saves = 0

LocalChangesOf(pending) == SelectSeq(pending, LAMBDA c : c.source = "local")

\* Scanned task k carries a known id, its line differs from the record, and the
\* document's modification time is within the suppression window of the
\* record's lastSyncedAt.
SuppressedAt(k) ==
    /\ scan[k].tid # NoTid
    /\ scan[k].tid \in DOMAIN db
    /\ \/ ~LineAgreesWithRecord(scan[k].line, db[scan[k].tid])
       \/ scan[k].parent_tid # db[scan[k].tid].parent_tid
    /\ Abs(mtime[cur] - db[scan[k].tid].lastSyncedAt) < SuppressionMs

LinesOf(lines, t) == Cardinality({i \in 1..Len(lines) : extractTID(lines[i]) = t})

\* The resolution loop resolved record t to a remote-origin deletion.
RemoteDeletionWon(res, t) ==
    t \in DOMAIN res /\ res[t].source = "api" /\ res[t].changes.deleted

\* C17: when a remote-origin deletion wins the resolution of a record, then
\* after resolveAndApplyUpdates no line of the document carries its id, the
\* store holds no record of it, no remote delete naming it has been issued,
\* the other documents are untouched, and every other id (and the lines
\* without id) is on as many lines of the document as before.
C17_RemoteDeletionApplied ==
    [][(pc = "resolve" /\ pc' = "done") =>
          \A t \in DOMAIN db :
              RemoteDeletionWon(resolved', t) =>
                  /\ LinesOf(files'[cur], t) = 0
                  /\ t \notin DOMAIN db'
                  /\ \A k \in 1..Len(cmds') :
                        cmds'[k].type = "delete" =>
                            \A j \in 1..Len(cmds'[k].commands) : cmds'[k].commands[j] # t
                  /\ \A p \in Paths \ {cur} : files'[p] = files[p]
                  /\ \A u \in 0..MaxIds :
                        ~RemoteDeletionWon(resolved', u) =>
                            LinesOf(files'[cur], u) = LinesOf(files[cur], u)]_vars

\* A remote deletion of task 1 has just been applied to a document that held
\* its line and the line of its child: the child's line is what remains.
C17_Witness ==
    /\ pc = "done"
    /\ RemoteDeletionWon(resolved, 1)
    /\ 1 \notin DOMAIN db
    /\ LinesOf(files[cur], 1) = 0
    /\ LinesOf(files[cur], 2) = 1
    /\ cmds = <<>>

(***************************************************************************)
(* Properties of the cross-file parent check (checked under SpecParent).   *)
(***************************************************************************)
\* The winning resolution of record t assigns a parent whose record is in
\* another document than t's.
CrossFileParentWon(res, dbx, t) ==
    /\ t \in DOMAIN res /\ t \in DOMAIN dbx
    /\ ~res[t].changes.deleted
    /\ res[t].changes.hasParent
    /\ res[t].changes.parent_tid # NoTid
    /\ res[t].changes.parent_tid \in DOMAIN dbx
    /\ dbx[res[t].changes.parent_tid].filepath # dbx[t].filepath

\* The item_move commands for task t in the batches sent so far.
MovesOf(batches, t) ==
    {m \in UNION {{batches[k].commands[j] : j \in 1..Len(batches[k].commands)} :
                     k \in {i \in 1..Len(batches) : batches[i].type = "move"}} : m.id = t}

\* C18: when the winning change of a record assigns a parent whose record is
\* in another document, the record has no parent after the resolution; and
\* when the local origin won, no move attaches the task to that parent: the
\* only move issued for it is the one to the root of the default project,
\* and it is issued when the record had a parent before.
C18_CrossFileParentDropped ==
    [][(pc = "resolve" /\ pc' = "done") =>
          \A t \in DOMAIN db :
              CrossFileParentWon(resolved', db, t) =>
                  /\ t \in DOMAIN db'
                  /\ db'[t].parent_tid = NoTid
                  /\ resolved'[t].source = "local" =>
                        /\ MovesOf(cmds', t) \subseteq
                               {[id |-> t, parent_id |-> NoTid,
                                 project_id |-> DefaultProjectId]}
                        /\ db[t].parent_tid # NoTid => MovesOf(cmds', t) # {}]_vars

\* The pending local change that put task 2 under task 1 has won; task 1 is
\* in document Y, task 2 in X; the record of task 2 has lost its parent and
\* the move to the default project has been issued.
C18_Witness ==
    /\ pc = "done" /\ cur = "X"
    /\ 2 \in DOMAIN resolved
    /\ resolved[2].source = "local"
    /\ resolved[2].changes.hasParent /\ resolved[2].changes.parent_tid = 1
    /\ 1 \in DOMAIN db /\ db[1].filepath = "Y"
    /\ 2 \in DOMAIN db /\ db[2].filepath = "X" /\ db[2].parent_tid = NoTid
    /\ MovesOf(cmds, 2) = {[id |-> 2, parent_id |-> NoTid,
                            project_id |-> DefaultProjectId]}

(***************************************************************************)
(* Properties of the remote client (checked under SpecRequest and          *)
(* SpecRequestFair).                                                       *)
(***************************************************************************)
\* The HTTP attempts of the r-th todoistSyncRequest of the running syncPull.
AttemptsOf(r) == SelectSeq(fetches, LAMBDA f : f.request = r)

\* The error the r-th request threw, "" when it returned data.
ErrorOfRequest(r) ==
    LET last == AttemptsOf(r)[Len(AttemptsOf(r))]
    IN  IF last.status = "ok" THEN "" ELSE errorOf(last.status)

\* C19: syncPull makes one request with the given cursor.  It makes a second
\* request exactly when the first threw the invalid-cursor error; that request
\* carries the wildcard cursor, there is never a third, and its data is
\* returned marked as a full resync whatever the answer says.  An error of the
\* second request, and every other error of the first, is the error syncPull
\* throws.
C19_CursorFallback ==
    /\ plPc # "idle" =>
          /\ Len(requests) \in {1, 2}
          /\ requests[1] = plCursor
          /\ Len(requests) = 2 =>
                /\ requests[2] = Wildcard
                /\ isInvalidToken(ErrorOfRequest(1))
          /\ \A k \in 1..Len(fetches) : fetches[k].sync_token = requests[fetches[k].request]
    /\ plPc = "done" =>
          /\ (Len(requests) = 2) = isInvalidToken(ErrorOfRequest(1))
          /\ plResult.error = ErrorOfRequest(Len(requests))
          /\ plResult.error = "" =>
                /\ plResult.response = Len(fetches)
                /\ fetches[Len(fetches)].status = "ok"
                /\ plResult.full_sync = IF Len(requests) = 2 THEN TRUE
                                        ELSE fetches[Len(fetches)].full_sync
          /\ plResult.error # "" => plResult.response = 0

\* The stored cursor was refused on every attempt; the wildcard request was
\* answered without the full_sync mark, and syncPull returns it marked.
C19_Witness ==
    /\ plPc = "done"
    /\ plCursor = "c1"
    /\ requests = <<"c1", Wildcard>>
    /\ Len(AttemptsOf(1)) = maxRetries
    /\ plResult.error = "" /\ plResult.full_sync
    /\ ~fetches[Len(fetches)].full_sync

\* Every HTTP attempt of the running request so far was answered with 429.
AllRateLimited ==
    /\ requests # <<>>
    /\ AttemptsOf(Len(requests)) # <<>>
    /\ \A k \in 1..Len(AttemptsOf(Len(requests))) :
          AttemptsOf(Len(requests))[k].status = "429"

\* C20: a request makes at most 3 HTTP attempts; it sleeps only between two
\* attempts, first 5 s, then 10 s, each sleep double the one before and none
\* above 60 s; a request answered with 429 on every attempt throws the
\* rate-limit error after the third; and whatever the answers are, a request
\* that has begun returns or throws.
C20_BoundedBackoff ==
    /\ [](\A r \in 1..Len(requests) : Len(AttemptsOf(r)) <= maxRetries)
    /\ [](/\ Len(waits) <= maxRetries - 1
          /\ \A k \in 1..Len(waits) :
                /\ waits[k] <= MaxRetryDelay
                /\ waits[k] = IF k = 1 THEN InitialRetryDelay ELSE 2 * waits[k - 1]
          /\ rqPc \in {"fetch", "sleep", "returned", "threw"} =>
                Len(waits) = IF rqPc = "sleep" THEN Len(AttemptsOf(Len(requests))) - 1
                             ELSE attempt)
    /\ []((AllRateLimited /\ rqPc \notin {"fetch", "sleep"}) =>
             /\ Len(AttemptsOf(Len(requests))) = maxRetries
             /\ waits = <<InitialRetryDelay, 2 * InitialRetryDelay>>
             /\ rqPc = "threw" \/ isRateLimitError(plResult.error))
    /\ (rqPc \in {"fetch", "sleep"}) ~> (rqPc \in {"returned", "threw"})

\* The third attempt of a request was answered with 429 like the two before.
C20_Witness ==
    /\ rqPc = "threw"
    /\ AllRateLimited
    /\ Len(AttemptsOf(Len(requests))) = maxRetries
    /\ waits = <<5000, 10000>>

\* The answer is an HTTP error status other than 429 or an error in the body.
IsApiError(status) == status \in {"httpError", "invalidToken"}

\* C21: a request that receives a non-429 HTTP error status or an error in the
\* response body is attempted exactly once: the attempt that received it is
\* the only attempt of its request, and no backoff wait follows it.
C21_ErrorNotRetried ==
    \A k \in 1..Len(fetches) :
        IsApiError(fetches[k].status) =>
            /\ Len(AttemptsOf(fetches[k].request)) = 1
            /\ (fetches[k].request = Len(requests) => waits = <<>> /\ rqPc # "sleep")

\* A request was answered with an HTTP error on each of three attempts and
\* slept 5 s and 10 s in between before it threw.
C21_Witness ==
    /\ rqPc = "threw"
    /\ Len(AttemptsOf(Len(requests))) = maxRetries
    /\ \A k \in 1..maxRetries : AttemptsOf(Len(requests))[k].status = "httpError"
    /\ waits = <<InitialRetryDelay, 2 * InitialRetryDelay>>

(***************************************************************************)
(* Properties of the batch calls (checked under SpecBatch).                *)
(***************************************************************************)
RECURSIVE SumSeq(_)
SumSeq(q) == IF q = <<>> THEN 0 ELSE q[1] + SumSeq(Tail(q))

\* C22: every batch call carries at most 100 items, and once the caller is
\* done with an operation the calls it made carry, together, all the items
\* the document yielded for it.
C22_BatchesCappedAndComplete ==
    /\ \A k \in 1..Len(batchCalls) : batchCalls[k] <= BatchLimit
    /\ batchPc = "done" => SumSeq(batchCalls) = batchItems

\* 101 winning local changes of one document: the one call throws and nothing
\* is sent.
C22_Witness ==
    /\ batchPc = "done"
    /\ batchOp = "update"
    /\ batchItems = BatchLimit + 1
    /\ batchCalls = <<>>
    /\ batchError

(***************************************************************************)
(* Properties of the creation protocol's clean-up (checked under           *)
(* SpecCreate).                                                            *)
(***************************************************************************)
\* The ids the create batches of the running processFile returned.
CreatedIds ==
    UNION {{cmds[k].ids[j] : j \in 1..Len(cmds[k].ids)} :
              k \in {i \in 1..Len(cmds) : cmds[i].type = "create"}}

\* The ids returned for new tasks of the given text.
CreatedFor(content) ==
    UNION {{cmds[k].ids[j] : j \in {i \in 1..Len(cmds[k].ids) :
                                       cmds[k].commands[i].content = content}} :
              k \in {i \in 1..Len(cmds) : cmds[i].type = "create"}}

\* The ids the clean-up syncBatchDelete calls of the running processFile name.
GhostDeleted ==
    UNION {cmds[k].tids : k \in {i \in 1..Len(cmds) : cmds[i].type = "ghostDelete"}}

\* The id is on a line of the document and has a record, or its remote task
\* has been deleted again.
Accounted(t) ==
    \/ LinesOf(files[cur], t) >= 1 /\ t \in DOMAIN db
    \/ t \in GhostDeleted

\* processNewTasks has returned or thrown.
CreationEnded == pc = "reconcile" \/ (pc = "done" /\ passError)

\* C24: at the end of the creation protocol, also when a deeper depth's batch
\* failed after shallower ones succeeded, every id a create batch of the pass
\* returned is on a line of the document and in the store, or a remote delete
\* has been issued for it.
C24_CreatedIdsAccounted ==
    CreationEnded => \A t \in CreatedIds : Accounted(t)

\* The batch of depth 0 succeeded and the batch of depth 1 failed, in a
\* document of pairwise distinct texts: the ids of depth 0 are on no line, in
\* no record and in no delete.
C24_Witness ==
    /\ pc = "done" /\ passError
    /\ DistinctTexts
    /\ CreatedIds # {}
    /\ \A t \in CreatedIds : LinesOf(files[cur], t) = 0 /\ t \notin DOMAIN db
    /\ GhostDeleted = {}

\* Lines i < j of the scanned document are the only two new task lines with
\* their text.
TwinLines(i, j) ==
    /\ i < j
    /\ scan[i].tid = NoTid /\ scan[j].tid = NoTid
    /\ parseTaskContent(scan[i].line) = parseTaskContent(scan[j].line)
    /\ \A k \in 1..Len(scan) :
          parseTaskContent(scan[k].line) = parseTaskContent(scan[i].line) => k \in {i, j}

\* C25: when two new task lines have identical text, then after the creation
\* pass exactly one of them carries an id, and every remote task created for
\* that text whose id is on no line has been deleted again.
C25_TwinKeepsOneId ==
    pc = "reconcile" =>
        \A i, j \in 1..Len(scan) :
            TwinLines(i, j) =>
                /\ (extractTID(files[cur][i]) # NoTid) # (extractTID(files[cur][j]) # NoTid)
                /\ \A t \in CreatedFor(parseTaskLine(scan[i].line).content) : Accounted(t)

\* Two root lines of the same text were created in one batch: the first line
\* carries the second task's id, the second line none, and the first task
\* was not deleted.
C25_Witness ==
    /\ pc = "reconcile"
    /\ \E i, j \in 1..Len(scan) :
          /\ TwinLines(i, j)
          /\ extractTID(files[cur][i]) # NoTid
          /\ extractTID(files[cur][j]) = NoTid
          /\ \E t \in CreatedFor(parseTaskLine(scan[i].line).content) :
                /\ t # extractTID(files[cur][i])
                /\ LinesOf(files[cur], t) = 0
                /\ t \notin GhostDeleted

(***************************************************************************)
(* Properties of reconciliation, continued (checked under Spec).           *)
(***************************************************************************)
\* Scanned task k carries an id the store has no record of.
UnknownIdAt(k) == scan[k].tid # NoTid /\ scan[k].tid \notin DOMAIN db

\* C26: when a scanned line carries an id that is not in the store,
\* reconciliation inserts a record for it with the line's field values, the
\* current document as its path and no pending change.
C26_UnknownIdAdopted ==
    [][(pc = "reconcile" /\ pc' = "resolve") =>
          \A k \in 1..Len(scan) :
              UnknownIdAt(k) =>
                  /\ scan[k].tid \in DOMAIN db'
                  /\ db'[scan[k].tid].filepath = cur
                  /\ db'[scan[k].tid].pending_changes = <<>>
                  /\ LineAgreesWithRecord(scan[k].line, db'[scan[k].tid])]_vars

\* Reconciliation has run over a document with a line whose id the store does
\* not know, and the store still has no record of it.
C26_Witness ==
    /\ pc = "resolve"
    /\ \E k \in 1..Len(scan) :
          /\ UnknownIdAt(k)
          /\ LinesOf(files[cur], scan[k].tid) = 1

\* Batch c of the pass was sent and failed.
BatchFailed(c) == c.type \in {"create", "update", "move", "delete"} /\ ~c.ok

\* Some record of the current document still has pending changes.
PendingInCur == \E t \in DOMAIN db : db[t].filepath = cur /\ db[t].pending_changes # <<>>

\* C27: a failed remote batch (create, update, move or delete) does not abort
\* the pass of its document: a pass in which a batch failed still ends with
\* the step that resolves the pending changes, after reconciliation.
C27_FailedBatchDoesNotAbort ==
    [][(pc # "done" /\ pc' = "done" /\ \E k \in 1..Len(cmds') : BatchFailed(cmds'[k]))
          => pc = "resolve"]_vars

\* A pass has ended on a failed create batch while a record of its document
\* still has pending changes that were never resolved.
C27_Witness ==
    /\ pc = "done"
    /\ \E k \in 1..Len(cmds) : cmds[k].type = "create" /\ BatchFailed(cmds[k])
    /\ resolved = EmptyFn
    /\ PendingInCur

(***************************************************************************)
(* Properties of the conflict resolver, continued (checked under           *)
(* SpecResolve).                                                           *)
(***************************************************************************)
\* Change c is older than some change of the same origin in pending.
OlderIn(pending, c) ==
    \E k \in 1..Len(pending) :
        pending[k].source = c.source /\ pending[k].timestamp > c.timestamp

WithChange(pending, pos, c) ==
    SubSeq(pending, 1, pos) \o <<c>> \o SubSeq(pending, pos + 1, Len(pending))

WithoutChange(pending, k) ==
    SubSeq(pending, 1, k - 1) \o SubSeq(pending, k + 1, Len(pending))

\* C28: when both origins have pending changes, the resolution (winning
\* origin and changeset) is the one of the two latest changes alone: putting
\* an older change of either origin anywhere into the list, or taking an
\* older change out of it, leaves the result as it is.
C28_OlderChangesIrrelevant ==
    (rsDone /\ BothOrigins(rsPending)) =>
        /\ \A c \in PendingChangeSet, pos \in 0..Len(rsPending) :
              OlderIn(rsPending, c) =>
                  resolveConflicts(WithChange(rsPending, pos, c), rsWindow) = rsResult
        /\ \A k \in 1..Len(rsPending) :
              OlderIn(rsPending, rsPending[k]) =>
                  resolveConflicts(WithoutChange(rsPending, k), rsWindow) = rsResult

\* The resolver has run on a list with both origins in which an older local
\* change with a different changeset is queued after the latest local one,
\* and the older one alone would have changed the winner.
C28_Witness ==
    /\ rsDone /\ BothOrigins(rsPending) /\ Len(rsPending) = 3
    /\ rsPending[1].source = "local" /\ rsPending[2].source = "api"
    /\ rsPending[3].source = "local"
    /\ rsPending[3].timestamp < rsPending[1].timestamp
    /\ rsPending[3].changes # rsPending[1].changes
    /\ rsResult.source = "local"
    /\ resolveConflicts(WithoutChange(rsPending, 1), rsWindow).source = "api"

(***************************************************************************)
(* Properties of the selection over several cycles (checked under          *)
(* SpecCycle).                                                             *)
(***************************************************************************)
\* Document p is one a later cycle selects without a new event: getModifiedFiles
\* finds it newer than lastSync, or a record of it has pending changes.
Selectable(p) ==
    \/ mtime[p] > lastSync
    \/ \E t \in DOMAIN db : db[t].filepath = p /\ db[t].pending_changes # <<>>

\* Document p was modified by the user after the last cycle before the running
\* or latest one had set lastSync, and no pass has read it since.
ModifiedUnscanned(p) ==
    p \in enabled /\ p \in unscanned /\ mtime[p] > startedAt.lastSync

\* C30: a sync-enabled document the user modified after its last scan is
\* selected by a later cycle without another modification: whenever no cycle
\* runs, such a document is newer than lastSync or has pending changes.
C30_ModifiedStaysSelectable ==
    cyPc = "idle" => \A p \in Paths : ModifiedUnscanned(p) => Selectable(p)

\* A scheduled cycle has skipped the active document, which the user had
\* modified, and has ended with lastSync at or after the modification: no
\* later cycle selects the document.
C30_Witness ==
    /\ cyPc = "idle" /\ cycles >= 1 /\ cycleError = NoError
    /\ activeFilePath # NoPath
    /\ ModifiedUnscanned(activeFilePath)
    /\ startedAt.mtime[activeFilePath] > startedAt.lastSync
    /\ ~Selectable(activeFilePath)
    /\ getModifiedFiles(mtime, enabled, lastSync, NoPath) = <<>>

AllPendingEmpty == \A t \in DOMAIN db : db[t].pending_changes = <<>>

\* Nothing is left for a cycle to do: no record has a pending change, no
\* sync-enabled document is newer than lastSync, no pass is running and the
\* running cycle, if any, has listed and queued no document.
Quiescent ==
    /\ AllPendingEmpty
    /\ \A p \in enabled : mtime[p] <= lastSync
    /\ pc = "idle"
    /\ cyPc = "pull" => modifiedFiles = <<>>
    /\ cyPc = "process" => queue = <<>>

MaxLabels == 2         \* user labels typed on one line
SyncTag == "tdsync"
UserLabels == {"home", "work", "urgent"}
FrontmatterChoices == {<<>>, <<"home">>, <<"team">>}

IsInjective(q) == \A i, j \in 1..Len(q) : q[i] = q[j] => i = j

LabelsAsSet(q) == {q[k] : k \in 1..Len(q)}

\* The hashtags q with those at positions i and i + 1 exchanged.
Exchanged(q, i) ==
    [k \in 1..Len(q) |-> IF k = i THEN q[i + 1] ELSE IF k = i + 1 THEN q[i] ELSE q[k]]

\* parseLabels: every #hashtag of the line in line order, the sync tag included.
parseLabels(hashtags) == [k \in 1..Len(hashtags) |-> hashtags[k]]

\* mergeLabelLists: the two lists one after the other, first occurrences kept.
mergeLabelLists(labels1, labels2) == Dedupe(labels1 \o labels2)

\* buildTaskLine, parts 3 and 8: the merged labels without the sync tag, then the
\* sync tag after the other markers.
buildLabels(labels, frontmatterLabels) ==
    SelectSeq(mergeLabelLists(labels, frontmatterLabels), LAMBDA l : l # SyncTag)
        \o <<SyncTag>>

\* db.setTask in the write-back of processNewTasks:
\* [...new Set(['tdsync', ...frontmatterLabels, ...currentTask.labels])]
recordLabels(labels, frontmatterLabels) == Dedupe(<<SyncTag>> \o frontmatterLabels \o labels)

\* JSON.stringify(currentTaskData.labels) !== JSON.stringify(dbTask.labels)
labelsChanged(lineLabels, dbLabels) == lineLabels # dbLabels

\* processNewTasks writes the id to a new line and adds its record.
LabelsWritten ==
    /\ lbPc = "new"
    /\ lbRecord' = recordLabels(parseLabels(lbInline), lbFront)
    /\ lbLine' = buildLabels(parseLabels(lbInline), lbFront)
    /\ lbPc' = "written"
    /\ UNCHANGED <<lbInline, lbFront, lbChanged>>
    /\ UNCHANGED <<rsVars, docVars, passVars, envVars, cycleVars, queueVars>>
    /\ UNCHANGED <<plPc, plCursor, plResult, requests, rqPc, attempt, retryDelay, waits,
                   fetches, batchVars, pulled, wbVars, persistVars>>

\* The user exchanges two neighbouring hashtags of the line.
UserReorders(i) ==
    /\ lbPc = "written"
    /\ i \in 1..(Len(lbLine) - 1)
    /\ lbLine' = Exchanged(lbLine, i)
    /\ UNCHANGED <<lbPc, lbInline, lbFront, lbRecord, lbChanged>>
    /\ UNCHANGED <<rsVars, docVars, passVars, envVars, cycleVars, queueVars>>
    /\ UNCHANGED <<plPc, plCursor, plResult, requests, rqPc, attempt, retryDelay, waits,
                   fetches, batchVars, pulled, wbVars, persistVars>>

\* reconcileFileTasks PART 1 for the line, all other fields and the parent being
\* equal to the record's: a local change is pushed when the labels differ and the
\* document was not written by the engine within the suppression window.
LabelsCompared(recentlyModifiedByUs) ==
    /\ lbPc = "written"
    /\ lbChanged' = (labelsChanged(parseLabels(lbLine), lbRecord) /\ ~recentlyModifiedByUs)
    /\ lbPc' = "compared"
    /\ UNCHANGED <<lbInline, lbFront, lbLine, lbRecord>>
    /\ UNCHANGED <<rsVars, docVars, passVars, envVars, cycleVars, queueVars>>
    /\ UNCHANGED <<plPc, plCursor, plResult, requests, rqPc, attempt, retryDelay, waits,
                   fetches, batchVars, pulled, wbVars, persistVars>>

\* resolveAndApplyUpdates for the line: the local change, the only pending one, wins
\* and the record takes its labels; without a change nothing is done.
LabelsResolved ==
    /\ lbPc = "compared"
    /\ lbRecord' = IF lbChanged THEN parseLabels(lbLine) ELSE lbRecord
    /\ lbChanged' = FALSE
    /\ lbPc' = "written"
    /\ UNCHANGED <<lbInline, lbFront, lbLine>>
    /\ UNCHANGED <<rsVars, docVars, passVars, envVars, cycleVars, queueVars>>
    /\ UNCHANGED <<plPc, plCursor, plResult, requests, rqPc, attempt, retryDelay, waits,
                   fetches, batchVars, pulled, wbVars, persistVars>>

InitLabels ==
    /\ ResolverUnused /\ VaultUnused /\ ClientUnused /\ pulled = <<>>
    /\ WriteBackUnused /\ PersistUnused
    /\ lbPc = "new"
    /\ lbInline \in {q \in SeqsUpTo(UserLabels, MaxLabels) : IsInjective(q)}
    /\ lbFront \in FrontmatterChoices
    /\ lbLine = lbInline
    /\ lbRecord = <<>>
    /\ lbChanged = FALSE

NextLabels ==
    \/ LabelsWritten
    \/ \E i \in 1..(MaxLabels + 1) : UserReorders(i)
    \/ \E recentlyModifiedByUs \in BOOLEAN : LabelsCompared(recentlyModifiedByUs)
    \/ LabelsResolved

SpecLabels == InitLabels /\ [][NextLabels]_vars

(***************************************************************************)
(* Properties of the labels (checked under SpecLabels).                    *)
(***************************************************************************)
\* C31: a line whose labels equal the record's labels up to order produces
\* no local-origin pending change on account of its labels.
C31_LabelsUnordered ==
    (lbPc = "compared" /\ LabelsAsSet(parseLabels(lbLine)) = LabelsAsSet(lbRecord))
        => ~lbChanged

\* Reconciliation has recorded a local change for a line that stands as the
\* engine wrote it and carries the same labels as its record, in another order.
C31_Witness ==
    /\ lbPc = "compared" /\ lbChanged
    /\ lbLine = buildLabels(parseLabels(lbInline), lbFront)
    /\ lbRecord = recordLabels(parseLabels(lbInline), lbFront)
    /\ LabelsAsSet(parseLabels(lbLine)) = LabelsAsSet(lbRecord)

(***************************************************************************)
(* Properties of the pull step (checked under SpecCycle).                  *)
(***************************************************************************)
\* The record without its pending list.
Settled(rec) == [rec EXCEPT !.pending_changes = <<>>]

\* The items of the received list that carry id t.
ItemsFor(items, t) == SelectSeq(items, LAMBDA x : x.id = t)

\* C32: the pull step creates and deletes no record and changes no field and
\* no document path; for every received item of a known id it appends one
\* remote-origin pending change with the item's update time (a deletion when
\* the item is deleted remotely), and items of unknown ids change nothing.
C32_PullOnlyQueues ==
    [][(cyPc = "pull" /\ cyPc' # "pull") =>
          /\ DOMAIN db' = DOMAIN db
          /\ \A t \in DOMAIN db :
                LET old == db[t].pending_changes
                    new == db'[t].pending_changes
                    items == ItemsFor(pulled', t)
                IN  /\ Settled(db'[t]) = Settled(db[t])
                    /\ Len(new) = Len(old) + Len(items)
                    /\ SubSeq(new, 1, Len(old)) = old
                    /\ \A k \in 1..Len(items) :
                          /\ new[Len(old) + k].source = "api"
                          /\ new[Len(old) + k].timestamp = items[k].updated_at
                          /\ new[Len(old) + k].changes.deleted = items[k].item.is_deleted
                          /\ ~items[k].item.is_deleted =>
                                new[Len(old) + k].changes = apiChanges(items[k].item)]_vars

\* A pull has just received the remote deletion of a known task, made before
\* the current time, and the record holds it as its last pending change.
C32_Witness ==
    /\ cyPc = "process" /\ pc = "idle" /\ processed = <<>>
    /\ Len(pulled) = 1
    /\ pulled[1].id \in DOMAIN db
    /\ pulled[1].item.is_deleted
    /\ pulled[1].updated_at < now
    /\ LET pending == db[pulled[1].id].pending_changes
       IN  /\ pending # <<>>
           /\ pending[Len(pending)] = [source |-> "api", timestamp |-> pulled[1].updated_at,
                                       changes |-> DeletedChanges]

(***************************************************************************)
(* Properties of the timestamps of local changes (checked under Spec).     *)
(***************************************************************************)
\* The pending changes reconciliation has just appended to record t.
AppendedTo(t) ==
    SubSeq(db'[t].pending_changes, Len(db[t].pending_changes) + 1,
           Len(db'[t].pending_changes))

\* C33: every local-origin pending change reconciliation records, the
\* deletion recorded for a vanished line included, carries the modification
\* time of the document being processed.
C33_LocalChangeCarriesMtime ==
    [][(pc = "reconcile" /\ pc' = "resolve") =>
          \A t \in DOMAIN db :
              \A k \in 1..Len(AppendedTo(t)) :
                  AppendedTo(t)[k].source = "local" =>
                      AppendedTo(t)[k].timestamp = mtime[cur]]_vars

\* Reconciliation has recorded the deletion of a task whose line is in no
\* document, with a timestamp later than the modification of its document.
C33_Witness ==
    /\ pc = "resolve"
    /\ \E t \in DOMAIN db :
          /\ db[t].filepath = cur
          /\ db[t].pending_changes # <<>>
          /\ LET last == db[t].pending_changes[Len(db[t].pending_changes)]
             IN  /\ last.source = "local"
                 /\ last.changes.deleted
                 /\ last.timestamp = now
                 /\ last.timestamp > mtime[cur]
          /\ \A p \in Paths : LinesOf(files[p], t) = 0

(***************************************************************************)
(* The depth of a record in the store's parent chain, as the two write-backs*)
(* compute it: calculateTaskDepth (sequential write-back) and               *)
(* calculateIndentFromParentChain (atomic write-back).                      *)
(***************************************************************************)
MaxChain == 22         \* longest parent chain drawn for the depth computation

\* Mutant of calculateTaskDepth: the chain is followed without the depth cap.
RECURSIVE calculateTaskDepthUncappedFrom(_, _, _, _)
calculateTaskDepthUncappedFrom(currentTid, depth, visited, dbx) ==
    IF currentTid = NoTid THEN depth
    ELSE IF currentTid \in visited THEN depth
    ELSE IF currentTid \notin DOMAIN dbx THEN depth
    ELSE IF dbx[currentTid].parent_tid = NoTid THEN depth
    ELSE calculateTaskDepthUncappedFrom(dbx[currentTid].parent_tid, depth + 1,
                                        visited \cup {currentTid}, dbx)

calculateTaskDepthUncapped(tid, dbx) == calculateTaskDepthUncappedFrom(tid, 0, {}, dbx)

\* The loop of calculateTaskDepth: it ends at the cap, at an empty id, at an id seen
\* before, at an id the store does not hold and at a record without parent.
RECURSIVE calculateTaskDepthFrom(_, _, _, _)
calculateTaskDepthFrom(currentTid, depth, visited, dbx) ==
    IF depth >= MAX_DEPTH THEN depth
    ELSE IF currentTid = NoTid THEN depth
    ELSE IF currentTid \in visited THEN depth
    ELSE IF currentTid \notin DOMAIN dbx THEN depth
    ELSE IF dbx[currentTid].parent_tid = NoTid THEN depth
    ELSE calculateTaskDepthFrom(dbx[currentTid].parent_tid, depth + 1,
                                visited \cup {currentTid}, dbx)

calculateTaskDepth(tid, dbx) == calculateTaskDepthFrom(tid, 0, {}, dbx)

\* A store of n records in one chain: record t has parent t + 1, the last one has
\* the parent given (none, a record of the chain, or an id the store does not hold).
ChainStore(n, last) ==
    [t \in 1..n |-> SyncedRecord("X", "A", IF t < n THEN t + 1 ELSE last)]

\* The document of the chain: one root line per record, but none for the absent id.
ChainLines(n, absent) ==
    LET ids == SortedSeq((1..n) \ {absent})
    IN  [k \in 1..Len(ids) |-> SyncedLine(0, "A", ids[k])]

\* The depth of one record (or of an id the store does not hold) is computed, by
\* both functions.
DepthComputed(tid) ==
    /\ wbPc = "idle"
    /\ wbDepth = <<>>
    /\ wbDepth' = [tid |-> tid,
                   depth |-> calculateTaskDepth(tid, wbDb),
                   indent |-> calculateIndentFromParentChain(tid, wbDb, wbLines)]
    /\ UNCHANGED <<rsVars, docVars, passVars, envVars, cycleVars, queueVars,
                   plPc, plCursor, plResult, requests, rqPc, attempt, retryDelay, waits,
                   fetches, batchVars, labelVars, pulled, persistVars,
                   wbPc, wbDb, wbLines, wbOrig, wbUpdates, wbLevel, wbTodo, wbWritten>>

InitDepth ==
    /\ ResolverUnused /\ VaultUnused /\ ClientUnused /\ LabelsUnused /\ pulled = <<>>
    /\ PersistUnused
    /\ wbPc = "idle" /\ wbUpdates = <<>> /\ wbLevel = 0 /\ wbTodo = <<>>
    /\ wbWritten = <<>> /\ wbDepth = <<>>
    /\ \E n \in 1..MaxChain :
          /\ \E last \in 0..(n + 1) : wbDb = ChainStore(n, last)
          /\ \E absent \in 0..n : wbLines = ChainLines(n, absent)
    /\ wbOrig = wbLines

NextDepth == \E tid \in 1..(Cardinality(DOMAIN wbDb) + 1) : DepthComputed(tid)

SpecDepth == InitDepth /\ [][NextDepth]_vars

\* The record's parent chain never ends: following parent_tid as many times as the
\* store has records still arrives at a record of the store.
RECURSIVE AncestorAt(_, _, _)
AncestorAt(tid, k, dbx) ==
    IF tid = NoTid \/ tid \notin DOMAIN dbx THEN NoTid
    ELSE IF k = 0 THEN tid
    ELSE AncestorAt(dbx[tid].parent_tid, k - 1, dbx)

CyclicChain(tid, dbx) == AncestorAt(tid, Cardinality(DOMAIN dbx), dbx) # NoTid

\* C35: for a record whose parent chain in the store is cyclic, the depth computed
\* for the write-back is 0 (the task is placed as a root task), by either function.
C35_CyclicChainIsRoot ==
    (wbDepth # <<>> /\ CyclicChain(wbDepth.tid, wbDb)) =>
        (wbDepth.depth = 0 /\ wbDepth.indent = 0)

\* Records 1 and 2 are each other's parent, both lines are in the document, and
\* calculateTaskDepth has returned 2 for record 1.
C35_Witness ==
    /\ wbDepth # <<>>
    /\ DOMAIN wbDb = {1, 2}
    /\ wbDb[1].parent_tid = 2 /\ wbDb[2].parent_tid = 1
    /\ Len(wbLines) = 2
    /\ wbDepth.tid = 1
    /\ CyclicChain(1, wbDb)
    /\ wbDepth.depth = 2
    /\ wbDepth.indent = 0

\* C36: the depth computation over the store's parent chain ends for every store,
\* cyclic parent references and parent ids missing from the store included, and
\* its result lies between 0 and 20.
C36_DepthBounded ==
    wbDepth # <<>> =>
        /\ wbDepth.depth \in 0..MAX_DEPTH
        /\ wbDepth.indent \in 0..MAX_DEPTH

\* The depth of a record with more than 20 ancestors has been computed, in a chain
\* that is cyclic: both results are the cap.
C36_Witness ==
    /\ wbDepth # <<>>
    /\ Cardinality(DOMAIN wbDb) > MAX_DEPTH + 1
    /\ CyclicChain(wbDepth.tid, wbDb)
    /\ wbDb[Cardinality(DOMAIN wbDb)].parent_tid = 1
    /\ Len(wbLines) = Cardinality(DOMAIN wbDb)
    /\ wbDepth.depth = MAX_DEPTH
    /\ wbDepth.indent = MAX_DEPTH

(***************************************************************************)
(* PHASE 5, the write-back of one document: the sequential write-back (one  *)
(* update at a time, level by level) and the atomic one (applyFileUpdates). *)
(***************************************************************************)
MaxUpdates == 2        \* longest fileUpdates list drawn for the write-back
WbIds == {1, 2, 3}

Last(S) == CHOOSE x \in S : \A y \in S : y <= x
First(S) == CHOOSE x \in S : \A y \in S : x <= y

\* findTaskLineByTidInLines: the first line carrying the id, 0 when there is none.
findTaskLineByTidInLines(tid, lines) ==
    LET hits == {i \in 1..Len(lines) : extractTID(lines[i]) = tid}
    IN  IF hits = {} THEN 0 ELSE First(hits)

\* detectParentTidFromIndentInLines: the id of the nearest line above that is
\* indented one level less.
detectParentTidFromIndentInLines(lineNum, lines) ==
    LET above == {i \in 1..(lineNum - 1) :
                     getIndentLevel(lines[i]) = getIndentLevel(lines[lineNum]) - 1}
    IN  IF getIndentLevel(lines[lineNum]) = 0 \/ above = {} THEN NoTid
        ELSE extractTID(lines[Last(above)])

\* findLastRootLineInLines: the last line without indentation, 0 when there is none.
findLastRootLineInLines(lines) ==
    LET roots == {i \in 1..Len(lines) : getIndentLevel(lines[i]) = 0}
    IN  IF roots = {} THEN 0 ELSE Last(roots)

\* findLastChildLineInLines: the last line one level below the parent's line, among
\* the lines that follow it up to the next line not indented deeper than the parent.
findLastChildLineInLines(parentTid, lines) ==
    LET parentLine == findTaskLineByTidInLines(parentTid, lines)
        ends == {i \in (parentLine + 1)..Len(lines) :
                    getIndentLevel(lines[i]) <= getIndentLevel(lines[parentLine])}
        stop == IF ends = {} THEN Len(lines) + 1 ELSE First(ends)
        children == {i \in (parentLine + 1)..(stop - 1) :
                        getIndentLevel(lines[i]) = getIndentLevel(lines[parentLine]) + 1}
    IN  IF parentLine = 0 \/ children = {} THEN 0 ELSE Last(children)

\* The number of lines that precede the line inserted for a moved task.
insertPos(expectedParent, lines) ==
    IF expectedParent = NoTid THEN findLastRootLineInLines(lines)
    ELSE IF findLastChildLineInLines(expectedParent, lines) # 0
    THEN findLastChildLineInLines(expectedParent, lines)
    ELSE IF findTaskLineByTidInLines(expectedParent, lines) # 0
    THEN findTaskLineByTidInLines(expectedParent, lines)
    ELSE Len(lines)

\* The line written for an update: the current line's fields under the depth of
\* the record.
newLineContent(lines, update, dbx) ==
    buildTaskLine([parseTaskLine(lines[findTaskLineByTidInLines(update.tid, lines)])
                      EXCEPT !.tid = update.tid],
                  calculateTaskDepth(update.tid, dbx))

\* The update is not skipped: its line is in the document and its record in the store.
updateFound(lines, update, dbx) ==
    findTaskLineByTidInLines(update.tid, lines) # 0 /\ update.tid \in DOMAIN dbx

\* "Decision: Update in-place OR delete+insert?"
updateMoves(lines, update, dbx) ==
    ~(/\ dbx[update.tid].parent_tid =
             detectParentTidFromIndentInLines(findTaskLineByTidInLines(update.tid, lines),
                                              lines)
      /\ ~update.needsReposition)

\* Mutant of writeUpdate: a moved line is inserted and its old line is left in place.
writeUpdateKeepsOld(lines, update, dbx) ==
    IF ~updateFound(lines, update, dbx) THEN lines
    ELSE IF ~updateMoves(lines, update, dbx)
    THEN [lines EXCEPT ![findTaskLineByTidInLines(update.tid, lines)] =
             newLineContent(lines, update, dbx)]
    ELSE InsertAt(lines, insertPos(dbx[update.tid].parent_tid, lines),
                  newLineContent(lines, update, dbx))

\* The body of the loop over one level's updates.
writeUpdate(lines, update, dbx) ==
    IF ~updateFound(lines, update, dbx) THEN lines
    ELSE IF ~updateMoves(lines, update, dbx)
    THEN [lines EXCEPT ![findTaskLineByTidInLines(update.tid, lines)] =
             newLineContent(lines, update, dbx)]
    ELSE LET removed == RemoveLines(lines, {findTaskLineByTidInLines(update.tid, lines)})
         IN  InsertAt(removed, insertPos(dbx[update.tid].parent_tid, removed),
                      newLineContent(lines, update, dbx))

\* maxLevel of the grouping.
maxLevelOfUpdates(fileUpdates, dbx) ==
    Last({0} \cup {calculateTaskDepth(fileUpdates[k].tid, dbx) : k \in 1..Len(fileUpdates)})

\* Mutant of updatesAtLevel: the levels are taken deepest first.
updatesAtLevelReversed(fileUpdates, lvl, dbx) ==
    SelectSeq(fileUpdates,
              LAMBDA u : calculateTaskDepth(u.tid, dbx)
                             = maxLevelOfUpdates(fileUpdates, dbx) - lvl)

\* updatesByLevel.get(level): the updates of that depth, in the order of fileUpdates.
updatesAtLevel(fileUpdates, lvl, dbx) ==
    SelectSeq(fileUpdates, LAMBDA u : calculateTaskDepth(u.tid, dbx) = lvl)

\* The sequential write-back begins: the updates are grouped, level 0 is first.
WriteBackBegins ==
    /\ wbPc = "idle"
    /\ wbPc' = "levels"
    /\ wbLevel' = 0
    /\ wbTodo' = updatesAtLevel(wbUpdates, 0, wbDb)
    /\ UNCHANGED <<rsVars, docVars, passVars, envVars, cycleVars, queueVars,
                   plPc, plCursor, plResult, requests, rqPc, attempt, retryDelay, waits,
                   fetches, batchVars, labelVars, pulled, persistVars,
                   wbDb, wbLines, wbOrig, wbUpdates, wbWritten, wbDepth>>

\* One update of the current level is written (or skipped).
WriteUpdate ==
    /\ wbPc = "levels"
    /\ wbTodo # <<>>
    /\ wbLines' = writeUpdate(wbLines, Head(wbTodo), wbDb)
    /\ wbWritten' = IF updateFound(wbLines, Head(wbTodo), wbDb)
                    THEN Append(wbWritten,
                                [tid |-> Head(wbTodo).tid,
                                 moved |-> updateMoves(wbLines, Head(wbTodo), wbDb)])
                    ELSE wbWritten
    /\ wbTodo' = Tail(wbTodo)
    /\ UNCHANGED <<rsVars, docVars, passVars, envVars, cycleVars, queueVars,
                   plPc, plCursor, plResult, requests, rqPc, attempt, retryDelay, waits,
                   fetches, batchVars, labelVars, pulled, persistVars,
                   wbPc, wbDb, wbOrig, wbUpdates, wbLevel, wbDepth>>

\* The level is exhausted: the next one is taken, or the write-back returns.
LevelEnds ==
    /\ wbPc = "levels"
    /\ wbTodo = <<>>
    /\ IF wbLevel < maxLevelOfUpdates(wbUpdates, wbDb)
       THEN /\ wbLevel' = wbLevel + 1
            /\ wbTodo' = updatesAtLevel(wbUpdates, wbLevel + 1, wbDb)
            /\ UNCHANGED wbPc
       ELSE /\ wbPc' = "done"
            /\ UNCHANGED <<wbLevel, wbTodo>>
    /\ UNCHANGED <<rsVars, docVars, passVars, envVars, cycleVars, queueVars,
                   plPc, plCursor, plResult, requests, rqPc, attempt, retryDelay, waits,
                   fetches, batchVars, labelVars, pulled, persistVars,
                   wbDb, wbLines, wbOrig, wbUpdates, wbWritten, wbDepth>>

\* The atomic write-back of the same updates: in-place updates, then repositions,
\* all computed on the document as it was.
WriteBackAtomic ==
    /\ wbPc = "idle"
    /\ wbPc' = "atomic"
    /\ wbLines' = applyFileUpdates(wbLines, wbUpdates, "X", wbDb)
    /\ wbWritten' = LET applied == SelectSeq(wbUpdates,
                                     LAMBDA u : /\ tidToLineNum(wbLines, u.tid) # 0
                                                /\ (u.needsReposition => u.tid \in DOMAIN wbDb))
                    IN  [k \in 1..Len(applied) |->
                            [tid |-> applied[k].tid, moved |-> applied[k].needsReposition]]
    /\ UNCHANGED <<rsVars, docVars, passVars, envVars, cycleVars, queueVars,
                   plPc, plCursor, plResult, requests, rqPc, attempt, retryDelay, waits,
                   fetches, batchVars, labelVars, pulled, persistVars,
                   wbDb, wbOrig, wbUpdates, wbLevel, wbTodo, wbDepth>>

\* The outlines a document of n task lines can have: the first line is a root, a
\* line is at most one level deeper than the line above it.
Outlines(n) ==
    {f \in [1..n -> 0..MaxIndent] :
        /\ f[1] = 0
        /\ \A i \in 2..n : f[i] <= f[i - 1] + 1}

\* The fileUpdates lists: distinct ids in any order, each with its flag.
UpdateLists ==
    {u \in SeqsUpTo([tid : WbIds, needsReposition : BOOLEAN], MaxUpdates) :
        u # <<>> /\ \A i, j \in 1..Len(u) : i # j => u[i].tid # u[j].tid}

InitWriteBack ==
    /\ ResolverUnused /\ VaultUnused /\ ClientUnused /\ LabelsUnused /\ pulled = <<>>
    /\ PersistUnused
    /\ wbPc = "idle" /\ wbLevel = 0 /\ wbTodo = <<>> /\ wbWritten = <<>> /\ wbDepth = <<>>
    /\ \E parents \in [WbIds -> {NoTid} \cup WbIds] :
          wbDb = [t \in WbIds |-> SyncedRecord("X", "A", parents[t])]
    /\ \E n \in 2..3 :
          \E ids \in [1..n -> WbIds], outline \in Outlines(n) :
              /\ \A i, j \in 1..n : i # j => ids[i] # ids[j]
              /\ wbLines = [i \in 1..n |-> SyncedLine(outline[i], "A", ids[i])]
    /\ wbOrig = wbLines
    /\ \E u \in UpdateLists :
          wbUpdates = [k \in 1..Len(u) |->
                          [tid |-> u[k].tid,
                           newContent |-> SyncedLine(0, "B", u[k].tid),
                           needsReposition |-> u[k].needsReposition]]

NextWriteBack ==
    \/ WriteBackBegins
    \/ WriteUpdate
    \/ LevelEnds
    \/ WriteBackAtomic

SpecWriteBack == InitWriteBack /\ [][NextWriteBack]_vars

\* The ids of the updates the write-back was given.
UpdatedIds == {wbUpdates[k].tid : k \in 1..Len(wbUpdates)}

\* C34: within one document's (sequential) write-back the updates are written in
\* nondecreasing order of the record's depth in the store's parent chain: no task
\* at depth d + 1 is written before every updated task at depth d has been written.
C34_ShallowestFirst ==
    wbPc \in {"levels", "done"} =>
        /\ \A i, j \in 1..Len(wbWritten) :
              i < j => calculateTaskDepth(wbWritten[i].tid, wbDb)
                          <= calculateTaskDepth(wbWritten[j].tid, wbDb)
        /\ \A i \in 1..Len(wbWritten) : \A k \in 1..Len(wbTodo) :
              calculateTaskDepth(wbWritten[i].tid, wbDb)
                  <= calculateTaskDepth(wbTodo[k].tid, wbDb)
        /\ \A k \in 1..Len(wbUpdates) :
              (/\ calculateTaskDepth(wbUpdates[k].tid, wbDb) < wbLevel
               /\ updateFound(wbOrig, wbUpdates[k], wbDb))
                 => \E i \in 1..Len(wbWritten) : wbWritten[i].tid = wbUpdates[k].tid

\* The write-back has returned after writing two updates; the one that comes first
\* in fileUpdates is the deeper one and was written last.
C34_Witness ==
    /\ wbPc = "done"
    /\ Len(wbUpdates) = 2 /\ Len(wbWritten) = 2
    /\ calculateTaskDepth(wbUpdates[1].tid, wbDb) > calculateTaskDepth(wbUpdates[2].tid, wbDb)
    /\ wbWritten[1].tid = wbUpdates[2].tid
    /\ wbWritten[2].tid = wbUpdates[1].tid

\* The lines that carry no updated id, in document order.
OtherLines(lines) == SelectSeq(lines, LAMBDA l : extractTID(l) \notin UpdatedIds)

MaxRemote == 2         \* remote changes in one behaviour

\* pullFromTodoist, the loop over the received items.
RECURSIVE pullItems(_, _, _)
pullItems(dbx, items, i) ==
    IF i > Len(items) THEN dbx
    ELSE pullItems(pullItem(dbx, items[i].id, items[i].item, items[i].updated_at),
                   items, i + 1)

\* The items of a response: every change of the log on a full sync, the changes
\* after the token on an incremental one.
responseItems(log, token, fullSync) ==
    IF fullSync THEN log ELSE SubSeq(log, token + 1, Len(log))

\* A task is changed on the remote service.
RemoteChanges(tid, item) ==
    /\ Len(remoteLog) < MaxRemote
    /\ remoteLog' = Append(remoteLog, [id |-> tid, item |-> item, updated_at |-> now])
    /\ UNCHANGED <<rsVars, docVars, passVars, envVars, cycleVars, queueVars,
                   plPc, plCursor, plResult, requests, rqPc, attempt, retryDelay, waits,
                   fetches, batchVars, labelVars, pulled, wbVars,
                   psPc, settingsToken, persisted>>

\* runSync up to the await of syncPull.
CycleBegins ==
    /\ psPc = "idle"
    /\ cycles < MaxCycles
    /\ cycles' = cycles + 1
    /\ psPc' = "pull"
    /\ UNCHANGED <<rsVars, docVars, passVars, envVars, queueVars,
                   syncing, cyPc, activeFilePath, modifiedFiles, lastSync, enabled,
                   activeCycles, rejected, saves, cycleError, startedAt, pendingAfterPull,
                   plPc, plCursor, plResult, requests, rqPc, attempt, retryDelay, waits,
                   fetches, batchVars, labelVars, pulled, wbVars,
                   settingsToken, remoteLog, persisted>>

\* syncPull throws, or returns: the token of the response is adopted at once; the
\* received items are queued in the same step unless the response is a full sync,
\* in which case the completed tasks are awaited first.
PullResponds(fullSync) ==
    /\ psPc = "pull"
    /\ \/ /\ psPc' = "idle"
          /\ UNCHANGED <<settingsToken, pulled, db>>
       \/ /\ settingsToken' = Len(remoteLog)
          /\ pulled' = responseItems(remoteLog, settingsToken, fullSync)
          /\ IF fullSync
             THEN psPc' = "completed" /\ UNCHANGED db
             ELSE /\ psPc' = "process"
                  /\ db' = pullItems(db, responseItems(remoteLog, settingsToken, fullSync), 1)
    /\ UNCHANGED <<rsVars, passVars, envVars, cycleVars, queueVars,
                   plPc, plCursor, plResult, requests, rqPc, attempt, retryDelay, waits,
                   fetches, batchVars, labelVars, wbVars,
                   files, mtime, now, nextId, window, remoteLog, persisted>>

\* fetchCompletedTasks returns and the items are queued, or it throws and
\* pullFromTodoist rethrows.
CompletedFetched(ok) ==
    /\ psPc = "completed"
    /\ IF ok
       THEN psPc' = "process" /\ db' = pullItems(db, pulled, 1)
       ELSE psPc' = "idle" /\ UNCHANGED db
    /\ UNCHANGED <<rsVars, passVars, envVars, cycleVars, queueVars,
                   plPc, plCursor, plResult, requests, rqPc, attempt, retryDelay, waits,
                   fetches, batchVars, labelVars, pulled, wbVars,
                   files, mtime, now, nextId, window,
                   settingsToken, remoteLog, persisted>>

\* The documents with pending changes are processed: the changes are resolved and
\* written back.
PendingProcessed ==
    /\ psPc = "process"
    /\ LET res == resolveAndApplyUpdates("X", files["X"], db, now, window)
       IN  /\ db' = res.db
           /\ files' = [files EXCEPT !["X"] = res.lines]
           /\ mtime' = [mtime EXCEPT !["X"] = IF res.lines # files["X"] THEN now ELSE @]
    /\ psPc' = "save"
    /\ UNCHANGED <<rsVars, passVars, envVars, cycleVars, queueVars,
                   plPc, plCursor, plResult, requests, rqPc, attempt, retryDelay, waits,
                   fetches, batchVars, labelVars, pulled, wbVars,
                   now, nextId, window, settingsToken, remoteLog, persisted>>

\* saveDatabase at the end of the cycle: plugin.saveData(settings) writes the
\* store and the cursor, or fails.
DatabaseSaved(ok) ==
    /\ psPc = "save"
    /\ persisted' = IF ok THEN [syncToken |-> settingsToken, tasks |-> db,
                              by |-> "saveDatabase"]
                    ELSE persisted
    /\ psPc' = "idle"
    /\ UNCHANGED <<rsVars, docVars, passVars, envVars, cycleVars, queueVars,
                   plPc, plCursor, plResult, requests, rqPc, attempt, retryDelay, waits,
                   fetches, batchVars, labelVars, pulled, wbVars,
                   settingsToken, remoteLog>>

\* saveSettings (a settings-tab handler, onunload): the same settings object is
\* written, whatever the cycle is awaiting.
SettingsSaved ==
    /\ persisted' = [syncToken |-> settingsToken, tasks |-> db, by |-> "saveSettings"]
    /\ UNCHANGED <<rsVars, docVars, passVars, envVars, cycleVars, queueVars,
                   plPc, plCursor, plResult, requests, rqPc, attempt, retryDelay, waits,
                   fetches, batchVars, labelVars, pulled, wbVars,
                   psPc, settingsToken, remoteLog>>

\* The host stops at any point of the cycle; onload reads data.json.
PluginReloads ==
    /\ settingsToken' = persisted.syncToken
    /\ db' = persisted.tasks
    /\ pulled' = <<>>
    /\ psPc' = "idle"
    /\ UNCHANGED <<rsVars, passVars, envVars, cycleVars, queueVars,
                   plPc, plCursor, plResult, requests, rqPc, attempt, retryDelay, waits,
                   fetches, batchVars, labelVars, wbVars,
                   files, mtime, now, nextId, window, remoteLog, persisted>>

InitPersist ==
    /\ ResolverUnused /\ ClientUnused /\ LabelsUnused /\ WriteBackUnused
    /\ files = [p \in Paths |-> IF p = "X"
                                THEN <<SyncedLine(0, "A", 1), SyncedLine(1, "B", 2)>>
                                ELSE <<>>]
    /\ mtime = [p \in Paths |-> StartMs]
    /\ now = StartMs
    /\ db = [t \in {1, 2} |-> IF t = 1 THEN SyncedRecord("X", "A", NoTid)
                                       ELSE SyncedRecord("X", "B", 1)]
    /\ nextId = 3
    /\ window = DefaultWindow
    /\ PassIdle
    /\ edits = 0 /\ pulls = 0 /\ unscanned = {}
    /\ CycleUnused
    /\ pulled = <<>>
    /\ psPc = "idle" /\ settingsToken = 0 /\ remoteLog = <<>>
    /\ persisted = [syncToken |-> 0, tasks |-> db, by |-> ""]

NextPersist ==
    \/ \E tid \in 1..3, item \in PullItems : RemoteChanges(tid, item)
    \/ CycleBegins
    \/ \E fullSync \in BOOLEAN : PullResponds(fullSync)
    \/ \E ok \in BOOLEAN : CompletedFetched(ok)
    \/ PendingProcessed
    \/ \E ok \in BOOLEAN : DatabaseSaved(ok)
    \/ SettingsSaved
    \/ PluginReloads

SpecPersist == InitPersist /\ [][NextPersist]_vars

\* The remote change is in the record: as a pending change, or as its field values.
PresentIn(task, c) ==
    \/ \E j \in 1..Len(task.pending_changes) :
          /\ task.pending_changes[j].source = "api"
          /\ task.pending_changes[j].timestamp = c.updated_at
          /\ task.pending_changes[j].changes =
                 IF c.item.is_deleted THEN DeletedChanges ELSE apiChanges(c.item)
    \/ ~c.item.is_deleted /\ RecordAdvancedTo(task, apiChanges(c.item))

\* The k-th remote change is covered by the token and is the latest covered change
\* of its task.
LatestCovered(k, token) ==
    /\ k <= token
    /\ \A j \in (k + 1)..token : remoteLog[j].id # remoteLog[k].id

\* C38: in every persisted state each remote change that the persisted cursor
\* covers, for a record the persisted store knows, is present in the persisted
\* store, as a pending change or as applied field values.
C38_PersistedCursorCovered ==
    \A k \in 1..Len(remoteLog) :
        (/\ LatestCovered(k, persisted.syncToken)
         /\ remoteLog[k].id \in DOMAIN persisted.tasks)
            => PresentIn(persisted.tasks[remoteLog[k].id], remoteLog[k])

\* The save at the end of a cycle has written data.json: the saved cursor covers
\* a remote change of a known record, and the saved record has neither the change
\* pending nor its values.
C38_Witness ==
    /\ psPc = "idle"
    /\ persisted = [syncToken |-> settingsToken, tasks |-> db, by |-> "saveDatabase"]
    /\ Len(remoteLog) = 1
    /\ persisted.syncToken = 1
    /\ remoteLog[1].id \in DOMAIN persisted.tasks
    /\ ~PresentIn(persisted.tasks[remoteLog[1].id], remoteLog[1])
    /\ files = [p \in Paths |-> IF p = "X"
                                THEN <<SyncedLine(0, "A", 1), SyncedLine(1, "B", 2)>>
                                ELSE <<>>]

====
